---------------------------- MODULE Spec2Model ----------------------------
(***************************************************************************)
(* Intellens: the service/language detection and reference aggregation    *)
(* pipeline (backend/utils/multi_parser.py, auto_service_detector.py).     *)
(*                                                                         *)
(* Text is modelled character by character: a Python str is a sequence of  *)
(* one-character strings, so that the regular expressions, strip, split,   *)
(* capitalize and os.path.splitext are computed as the code computes them. *)
(* A Python dict is a sequence of entries in insertion order.              *)
(***************************************************************************)
EXTENDS Integers, Sequences, FiniteSets, TLC

(***************************************************************************)
(* Characters and the str methods the code uses.                           *)
(***************************************************************************)
LowerSeq ==
  <<"a","b","c","d","e","f","g","h","i","j","k","l","m",
    "n","o","p","q","r","s","t","u","v","w","x","y","z">>

UpperSeq ==
  <<"A","B","C","D","E","F","G","H","I","J","K","L","M",
    "N","O","P","Q","R","S","T","U","V","W","X","Y","Z">>

LowerSet == {LowerSeq[i] : i \in 1..26}

UpperSet == {UpperSeq[i] : i \in 1..26}

DigitSet == {"0","1","2","3","4","5","6","7","8","9"}

\* [a-zA-Z0-9]
AlphaNum == LowerSet \cup UpperSet \cup DigitSet

\* \w
WordChars == AlphaNum \cup {"_"}

\* \s, and the characters str.strip() and str.split() remove
Whitespace == {" ", "\t", "\n", "\r"}

lower_c(c) ==
  IF c \in UpperSet THEN LowerSeq[CHOOSE i \in 1..26 : UpperSeq[i] = c] ELSE c

upper_c(c) ==
  IF c \in LowerSet THEN UpperSeq[CHOOSE i \in 1..26 : LowerSeq[i] = c] ELSE c

\* str.lower()
lower(s) == [i \in 1..Len(s) |-> lower_c(s[i])]

\* str.capitalize(): first character upper-cased, the rest lower-cased
capitalize(s) ==
  [i \in 1..Len(s) |-> IF i = 1 THEN upper_c(s[i]) ELSE lower_c(s[i])]

\* str.replace(a, b) for single characters
replace_c(s, a, b) == [i \in 1..Len(s) |-> IF s[i] = a THEN b ELSE s[i]]

MinOf(S) == CHOOSE x \in S : \A y \in S : x <= y

MaxOf(S) == CHOOSE x \in S : \A y \in S : y <= x

\* the k-th smallest element of a set of integers
Nth(S, k) == CHOOSE x \in S : Cardinality({y \in S : y < x}) = k - 1

\* str.strip()
strip(s) ==
  LET keep == {i \in 1..Len(s) : s[i] \notin Whitespace}
  IN  IF keep = {} THEN <<>> ELSE SubSeq(s, MinOf(keep), MaxOf(keep))

\* str.split(sep) for a one-character separator: always at least one part
split_on(s, sep) ==
  LET seps == {i \in 1..Len(s) : s[i] = sep}
      n    == Cardinality(seps)
  IN  [k \in 1..(n + 1) |->
         SubSeq(s, IF k = 1 THEN 1 ELSE Nth(seps, k - 1) + 1,
                   IF k = n + 1 THEN Len(s) ELSE Nth(seps, k) - 1)]

split_lines(content) == split_on(content, "\n")

\* str.split() with no argument: runs of whitespace separate, no empty parts
split_ws(s) ==
  LET starts == {i \in 1..Len(s) :
                   s[i] \notin Whitespace /\ (i = 1 \/ s[i - 1] \in Whitespace)}
      ends   == {i \in 1..Len(s) :
                   s[i] \notin Whitespace
                   /\ (i = Len(s) \/ s[i + 1] \in Whitespace)}
  IN  [k \in 1..Cardinality(starts) |-> SubSeq(s, Nth(starts, k), Nth(ends, k))]

\* ' '.join(parts)
RECURSIVE join_sp(_)
join_sp(parts) ==
  IF parts = <<>> THEN <<>>
  ELSE IF Len(parts) = 1 THEN parts[1]
  ELSE parts[1] \o <<" ">> \o join_sp(Tail(parts))

\* sub in s
contains(s, sub) ==
  \E i \in 1..(Len(s) - Len(sub) + 1) : SubSeq(s, i, i + Len(sub) - 1) = sub

\* s.startswith(pre)
startswith(s, pre) == Len(s) >= Len(pre) /\ SubSeq(s, 1, Len(pre)) = pre

RECURSIVE ConcatAll(_)
ConcatAll(ss) == IF ss = <<>> THEN <<>> ELSE Head(ss) \o ConcatAll(Tail(ss))

\* the elements of s that satisfy the membership test, in order
RECURSIVE SelectIn(_, _)
SelectIn(s, keep) ==
  IF s = <<>> THEN <<>>
  ELSE (IF Head(s) \in keep THEN <<Head(s)>> ELSE <<>>) \o SelectIn(Tail(s), keep)

(***************************************************************************)
(* The regular expressions of the pattern tables.  Every pattern of the    *)
(* code is a concatenation of atoms: a literal, one character of a class,  *)
(* a class repeated one or more ("plus") or zero or more ("star") times,   *)
(* an alternation of literals, a word boundary, or a lazy run up to the    *)
(* first occurrence of a character ("lazy": (.*?) before that character,   *)
(* with re.DOTALL).  In every pattern a repeated class is followed by      *)
(* nothing or by characters outside the class, so greedy matching never    *)
(* backtracks, and no alternative is a prefix of another.  grp is the atom *)
(* captured as group 1 (0: the pattern has no group); ic is re.IGNORECASE. *)
(***************************************************************************)
LitAt(lit, s, i, ic) ==
  /\ i + Len(lit) - 1 <= Len(s)
  /\ \A k \in 1..Len(lit) :
       IF ic THEN lower_c(s[i + k - 1]) = lower_c(lit[k])
       ELSE s[i + k - 1] = lit[k]

IsWordAt(s, i) == i >= 1 /\ i <= Len(s) /\ s[i] \in WordChars

\* \b between the characters i-1 and i
BoundaryAt(s, i) == IsWordAt(s, i - 1) # IsWordAt(s, i)

\* the first index from i on whose character is outside the class
RunEnd(s, i, cls) ==
  LET stops == {j \in i..Len(s) : s[j] \notin cls}
  IN  IF stops = {} THEN Len(s) + 1 ELSE MinOf(stops)

\* the index after the atom matched at i, 0 if it does not match there
AtomEnd(atom, s, i, ic) ==
  CASE atom.k = "lit" ->
         IF LitAt(atom.v, s, i, ic) THEN i + Len(atom.v) ELSE 0
    [] atom.k = "one" ->
         IF i <= Len(s) /\ s[i] \in atom.v THEN i + 1 ELSE 0
    [] atom.k = "plus" ->
         IF RunEnd(s, i, atom.v) > i THEN RunEnd(s, i, atom.v) ELSE 0
    [] atom.k = "alt" ->
         IF \E a \in 1..Len(atom.v) : LitAt(atom.v[a], s, i, ic)
         THEN i + Len(atom.v[CHOOSE a \in 1..Len(atom.v) :
                               LitAt(atom.v[a], s, i, ic)])
         ELSE 0
    [] atom.k = "star" -> RunEnd(s, i, atom.v)
    [] atom.k = "lazy" ->
         IF \E j \in i..Len(s) : s[j] = atom.v
         THEN MinOf({j \in i..Len(s) : s[j] = atom.v})
         ELSE 0
    [] atom.k = "wb" -> IF BoundaryAt(s, i) THEN i ELSE 0

\* the end index of every atom of p matched from i, <<>> if p fails at i
RECURSIVE AtomEnds(_, _, _, _, _)
AtomEnds(p, s, i, k, acc) ==
  IF k > Len(p.atoms) THEN acc
  ELSE LET e == AtomEnd(p.atoms[k], s, i, p.ic)
       IN  IF e = 0 THEN <<>> ELSE AtomEnds(p, s, e, k + 1, Append(acc, e))

\* a match object: group(0) and, where the pattern has a group, group(1)
MatchObj(p, s, i, ends) ==
  LET e == ends[Len(ends)]
      gs == IF p.grp <= 1 THEN i ELSE ends[p.grp - 1]
  IN  [start  |-> i,
       end    |-> e,
       group0 |-> SubSeq(s, i, e - 1),
       group1 |-> IF p.grp = 0 THEN <<>>
                  ELSE SubSeq(s, gs, ends[p.grp] - 1)]

\* re.finditer(p, s): the non-overlapping matches, left to right
RECURSIVE FindFrom(_, _, _, _)
FindFrom(p, s, i, acc) ==
  LET starts == {j \in i..Len(s) : AtomEnds(p, s, j, 1, <<>>) # <<>>}
  IN  IF starts = {} THEN acc
      ELSE LET j    == MinOf(starts)
               ends == AtomEnds(p, s, j, 1, <<>>)
           IN  FindFrom(p, s, ends[Len(ends)],
                        Append(acc, MatchObj(p, s, j, ends)))

finditer(p, s) == FindFrom(p, s, 1, <<>>)

\* re.findall(p, s): group 1 of every match, or the match if p has no group
findall(p, s) ==
  LET ms == finditer(p, s)
  IN  [m \in 1..Len(ms) |->
         IF p.grp = 0 THEN ms[m].group0 ELSE ms[m].group1]

\* re.search(p, s) is not None
search(p, s) == finditer(p, s) # <<>>

(***************************************************************************)
(* auto_service_detector.py: the pattern tables.                           *)
(***************************************************************************)
aws_service_map ==
  << <<<<"l","a","m","b","d","a">>, <<"A","W","S"," ","L","a","m","b","d","a">>>>,
     <<<<"s","3">>, <<"A","W","S"," ","S","3">>>>,
     <<<<"e","c","2">>, <<"A","W","S"," ","E","C","2">>>>,
     <<<<"r","d","s">>, <<"A","W","S"," ","R","D","S">>>>,
     <<<<"d","y","n","a","m","o","d","b">>, <<"A","W","S"," ","D","y","n","a","m","o","D","B">>>>,
     <<<<"i","o","t">>, <<"A","W","S"," ","I","o","T"," ","C","o","r","e">>>>,
     <<<<"k","i","n","e","s","i","s">>, <<"A","W","S"," ","K","i","n","e","s","i","s">>>>,
     <<<<"f","i","r","e","h","o","s","e">>, <<"A","W","S"," ","K","i","n","e","s","i","s"," ","D","a","t","a"," ","F","i","r","e","h","o","s","e">>>>,
     <<<<"g","r","e","e","n","g","r","a","s","s">>, <<"A","W","S"," ","I","o","T"," ","G","r","e","e","n","g","r","a","s","s">>>>,
     <<<<"l","e","x">>, <<"A","m","a","z","o","n"," ","L","e","x">>>>,
     <<<<"s","q","s">>, <<"A","W","S"," ","S","Q","S">>>>,
     <<<<"s","n","s">>, <<"A","W","S"," ","S","N","S">>>>,
     <<<<"c","l","o","u","d","f","o","r","m","a","t","i","o","n">>, <<"A","W","S"," ","C","l","o","u","d","F","o","r","m","a","t","i","o","n">>>>,
     <<<<"c","l","o","u","d","w","a","t","c","h">>, <<"A","W","S"," ","C","l","o","u","d","W","a","t","c","h">>>> >>

aws_patterns ==
  << [atoms |-> <<[k |-> "lit", v |-> <<"a","w","s">>], [k |-> "one", v |-> {"_","-"}], [k |-> "plus", v |-> AlphaNum]>>, grp |-> 3, ic |-> TRUE],
     [atoms |-> <<[k |-> "lit", v |-> <<"a","m","a","z","o","n","a","w","s",".","c","o","m","/">>], [k |-> "plus", v |-> AlphaNum \cup {"-"}]>>, grp |-> 2, ic |-> TRUE],
     [atoms |-> <<[k |-> "wb", v |-> {}], [k |-> "alt", v |-> <<<<"l","a","m","b","d","a">>, <<"s","3">>, <<"e","c","2">>, <<"r","d","s">>, <<"d","y","n","a","m","o","d","b">>, <<"i","o","t">>, <<"k","i","n","e","s","i","s">>, <<"f","i","r","e","h","o","s","e">>, <<"g","r","e","e","n","g","r","a","s","s">>, <<"l","e","x">>, <<"s","q","s">>, <<"s","n","s">>, <<"c","l","o","u","d","f","o","r","m","a","t","i","o","n">>, <<"c","l","o","u","d","w","a","t","c","h">>, <<"a","p","i","g","a","t","e","w","a","y">>, <<"c","o","g","n","i","t","o">>, <<"a","m","p","l","i","f","y">>>>], [k |-> "wb", v |-> {}]>>, grp |-> 2, ic |-> TRUE],
     [atoms |-> <<[k |-> "lit", v |-> <<"@","a","w","s","-","s","d","k","/">>], [k |-> "plus", v |-> AlphaNum \cup {"-"}]>>, grp |-> 2, ic |-> TRUE],
     [atoms |-> <<[k |-> "lit", v |-> <<"b","o","t","o","3",".">>]>>, grp |-> 0, ic |-> TRUE],
     [atoms |-> <<[k |-> "lit", v |-> <<"a","w","s">>], [k |-> "plus", v |-> Whitespace], [k |-> "plus", v |-> AlphaNum]>>, grp |-> 3, ic |-> TRUE],
     [atoms |-> <<[k |-> "lit", v |-> <<"A","W","S",":",":">>], [k |-> "plus", v |-> AlphaNum \cup {":"}]>>, grp |-> 2, ic |-> TRUE] >>

cloud_patterns ==
  << [pattern |-> [atoms |-> <<[k |-> "lit", v |-> <<".","s","3",".">>]>>, grp |-> 0, ic |-> TRUE],
       service |-> <<"A","W","S"," ","S","3">>],
     [pattern |-> [atoms |-> <<[k |-> "lit", v |-> <<".","e","c","2",".">>]>>, grp |-> 0, ic |-> TRUE],
       service |-> <<"A","W","S"," ","E","C","2">>],
     [pattern |-> [atoms |-> <<[k |-> "lit", v |-> <<".","l","a","m","b","d","a",".">>]>>, grp |-> 0, ic |-> TRUE],
       service |-> <<"A","W","S"," ","L","a","m","b","d","a">>],
     [pattern |-> [atoms |-> <<[k |-> "lit", v |-> <<".","r","d","s",".">>]>>, grp |-> 0, ic |-> TRUE],
       service |-> <<"A","W","S"," ","R","D","S">>],
     [pattern |-> [atoms |-> <<[k |-> "lit", v |-> <<".","d","y","n","a","m","o","d","b",".">>]>>, grp |-> 0, ic |-> TRUE],
       service |-> <<"A","W","S"," ","D","y","n","a","m","o","D","B">>],
     [pattern |-> [atoms |-> <<[k |-> "lit", v |-> <<"a","z","u","r","e",".">>]>>, grp |-> 0, ic |-> TRUE],
       service |-> <<"M","i","c","r","o","s","o","f","t"," ","A","z","u","r","e">>],
     [pattern |-> [atoms |-> <<[k |-> "lit", v |-> <<"g","c","p",".">>]>>, grp |-> 0, ic |-> TRUE],
       service |-> <<"G","o","o","g","l","e"," ","C","l","o","u","d"," ","P","l","a","t","f","o","r","m">>],
     [pattern |-> [atoms |-> <<[k |-> "lit", v |-> <<"k","u","b","e","r","n","e","t","e","s">>]>>, grp |-> 0, ic |-> TRUE],
       service |-> <<"K","u","b","e","r","n","e","t","e","s">>],
     [pattern |-> [atoms |-> <<[k |-> "lit", v |-> <<"d","o","c","k","e","r">>]>>, grp |-> 0, ic |-> TRUE],
       service |-> <<"D","o","c","k","e","r">>],
     [pattern |-> [atoms |-> <<[k |-> "lit", v |-> <<"r","e","d","i","s">>]>>, grp |-> 0, ic |-> TRUE],
       service |-> <<"R","e","d","i","s">>],
     [pattern |-> [atoms |-> <<[k |-> "lit", v |-> <<"m","o","n","g","o","d","b">>]>>, grp |-> 0, ic |-> TRUE],
       service |-> <<"M","o","n","g","o","D","B">>],
     [pattern |-> [atoms |-> <<[k |-> "lit", v |-> <<"p","o","s","t","g","r","e","s","q","l">>]>>, grp |-> 0, ic |-> TRUE],
       service |-> <<"P","o","s","t","g","r","e","S","Q","L">>],
     [pattern |-> [atoms |-> <<[k |-> "lit", v |-> <<"m","y","s","q","l">>]>>, grp |-> 0, ic |-> TRUE],
       service |-> <<"M","y","S","Q","L">>],
     [pattern |-> [atoms |-> <<[k |-> "lit", v |-> <<"n","g","i","n","x">>]>>, grp |-> 0, ic |-> TRUE],
       service |-> <<"N","g","i","n","x">>],
     [pattern |-> [atoms |-> <<[k |-> "lit", v |-> <<"a","p","a","c","h","e">>]>>, grp |-> 0, ic |-> TRUE],
       service |-> <<"A","p","a","c","h","e">>],
     [pattern |-> [atoms |-> <<[k |-> "lit", v |-> <<"t","e","r","r","a","f","o","r","m">>]>>, grp |-> 0, ic |-> TRUE],
       service |-> <<"T","e","r","r","a","f","o","r","m">>],
     [pattern |-> [atoms |-> <<[k |-> "lit", v |-> <<"e","x","p","r","e","s","s">>]>>, grp |-> 0, ic |-> TRUE],
       service |-> <<"E","x","p","r","e","s","s",".","j","s">>],
     [pattern |-> [atoms |-> <<[k |-> "lit", v |-> <<"f","a","s","t","a","p","i">>]>>, grp |-> 0, ic |-> TRUE],
       service |-> <<"F","a","s","t","A","P","I">>],
     [pattern |-> [atoms |-> <<[k |-> "lit", v |-> <<"d","j","a","n","g","o">>]>>, grp |-> 0, ic |-> TRUE],
       service |-> <<"D","j","a","n","g","o">>],
     [pattern |-> [atoms |-> <<[k |-> "lit", v |-> <<"f","l","a","s","k">>]>>, grp |-> 0, ic |-> TRUE],
       service |-> <<"F","l","a","s","k">>],
     [pattern |-> [atoms |-> <<[k |-> "lit", v |-> <<"r","e","a","c","t">>]>>, grp |-> 0, ic |-> TRUE],
       service |-> <<"R","e","a","c","t">>],
     [pattern |-> [atoms |-> <<[k |-> "lit", v |-> <<"v","u","e">>]>>, grp |-> 0, ic |-> TRUE],
       service |-> <<"V","u","e",".","j","s">>],
     [pattern |-> [atoms |-> <<[k |-> "lit", v |-> <<"a","n","g","u","l","a","r">>]>>, grp |-> 0, ic |-> TRUE],
       service |-> <<"A","n","g","u","l","a","r">>] >>

import_patterns ==
  << [atoms |-> <<[k |-> "lit", v |-> <<"i","m","p","o","r","t">>], [k |-> "plus", v |-> Whitespace], [k |-> "plus", v |-> AlphaNum \cup {"_","-"}]>>, grp |-> 3, ic |-> FALSE],
     [atoms |-> <<[k |-> "lit", v |-> <<"f","r","o","m">>], [k |-> "plus", v |-> Whitespace], [k |-> "plus", v |-> AlphaNum \cup {"_",".","-"}]>>, grp |-> 3, ic |-> FALSE],
     [atoms |-> <<[k |-> "lit", v |-> <<"r","e","q","u","i","r","e","(">>], [k |-> "one", v |-> {"'", "\""}], [k |-> "plus", v |-> AlphaNum \cup {"_",".","-"}], [k |-> "one", v |-> {"'", "\""}]>>, grp |-> 3, ic |-> FALSE],
     [atoms |-> <<[k |-> "lit", v |-> <<"@">>], [k |-> "plus", v |-> AlphaNum \cup {"_","-"}], [k |-> "lit", v |-> <<"/">>]>>, grp |-> 2, ic |-> FALSE] >>

legacy_import_patterns ==
  << [atoms |-> <<[k |-> "lit", v |-> <<"i","m","p","o","r","t">>], [k |-> "plus", v |-> Whitespace], [k |-> "plus", v |-> AlphaNum \cup {"_","-"}]>>, grp |-> 3, ic |-> FALSE],
     [atoms |-> <<[k |-> "lit", v |-> <<"f","r","o","m">>], [k |-> "plus", v |-> Whitespace], [k |-> "plus", v |-> AlphaNum \cup {"_",".","-"}]>>, grp |-> 3, ic |-> FALSE],
     [atoms |-> <<[k |-> "lit", v |-> <<"r","e","q","u","i","r","e","(">>], [k |-> "one", v |-> {"'", "\""}], [k |-> "plus", v |-> AlphaNum \cup {"_",".","-"}], [k |-> "one", v |-> {"'", "\""}]>>, grp |-> 3, ic |-> FALSE],
     [atoms |-> <<[k |-> "lit", v |-> <<"@">>], [k |-> "plus", v |-> AlphaNum \cup {"_","-"}], [k |-> "lit", v |-> <<"/">>]>>, grp |-> 2, ic |-> FALSE],
     [atoms |-> <<[k |-> "lit", v |-> <<"p","i","p">>], [k |-> "plus", v |-> Whitespace], [k |-> "lit", v |-> <<"i","n","s","t","a","l","l">>], [k |-> "plus", v |-> Whitespace], [k |-> "plus", v |-> AlphaNum \cup {"_","-"}]>>, grp |-> 5, ic |-> FALSE],
     [atoms |-> <<[k |-> "lit", v |-> <<"n","p","m">>], [k |-> "plus", v |-> Whitespace], [k |-> "lit", v |-> <<"i","n","s","t","a","l","l">>], [k |-> "plus", v |-> Whitespace], [k |-> "plus", v |-> AlphaNum \cup {"_","-"}]>>, grp |-> 5, ic |-> FALSE],
     [atoms |-> <<[k |-> "lit", v |-> <<"y","a","r","n">>], [k |-> "plus", v |-> Whitespace], [k |-> "lit", v |-> <<"a","d","d">>], [k |-> "plus", v |-> Whitespace], [k |-> "plus", v |-> AlphaNum \cup {"_","-"}]>>, grp |-> 5, ic |-> FALSE] >>

S_AWS_ == <<"A","W","S"," ">>

S_AWS_SDK == <<"A","W","S"," ","S","D","K">>

S_React == <<"R","e","a","c","t">>

S_Vue_js == <<"V","u","e",".","j","s">>

S_Microsoft_Azure == <<"M","i","c","r","o","s","o","f","t"," ","A","z","u","r","e">>

S_Google_Cloud_Platform == <<"G","o","o","g","l","e"," ","C","l","o","u","d"," ","P","l","a","t","f","o","r","m">>

S_aws == <<"a","w","s">>

S_react == <<"r","e","a","c","t">>

S_vue == <<"v","u","e">>

S_azure == <<"a","z","u","r","e">>

S_gcp == <<"g","c","p">>

S_google_cloud == <<"g","o","o","g","l","e","-","c","l","o","u","d">>

S_amazon == <<"a","m","a","z","o","n">>

S_service == <<"s","e","r","v","i","c","e">>

S_ellipsis == <<".",".",".">>

\* s[:n]
Take(s, n) == SubSeq(s, 1, IF n < Len(s) THEN n ELSE Len(s))

\* the parts longer than 2 characters that are no stop word, in order
RECURSIVE MeaningfulParts(_)
MeaningfulParts(parts) ==
  IF parts = <<>> THEN <<>>
  ELSE (IF Len(Head(parts)) > 2
           /\ lower(Head(parts)) \notin {S_aws, S_amazon, S_service}
        THEN <<Head(parts)>> ELSE <<>>) \o MeaningfulParts(Tail(parts))

clean_service_name(service_name) ==
  LET name  == strip(service_name)
      parts == split_ws(replace_c(replace_c(name, "_", " "), "-", " "))
      meaningful_parts == MeaningfulParts(Take(parts, 3))
  IN  IF Len(parts) > 3 /\ meaningful_parts # <<>>
      THEN join_sp(Take(meaningful_parts, 2))
      ELSE IF Len(name) > 30 THEN Take(name, 30) \o S_ellipsis
      ELSE name

(***************************************************************************)
(* A dict is a sequence of entries [name, ...] in insertion order.         *)
(***************************************************************************)
HasKey(d, name) == \E i \in 1..Len(d) : d[i].name = name

KeyIndex(d, name) == CHOOSE i \in 1..Len(d) : d[i].name = name

\* list(d.keys())
Keys(d) == [i \in 1..Len(d) |-> d[i].name]

\* defaultdict(lambda: {'count': 0, 'references': []})[name]
WithDefault(d, name) ==
  IF HasKey(d, name) THEN d
  ELSE Append(d, [name |-> name, count |-> 0, references |-> <<>>])

\* AddReference recording a service once per line
AddReference_OncePerLine(services, name, ref) ==
  LET d == WithDefault(services, name)
      i == KeyIndex(d, name)
  IN  IF \E n \in 1..Len(d[i].references) : d[i].references[n].line = ref.line
      THEN d
      ELSE [d EXCEPT ![i].count = @ + 1, ![i].references = Append(@, ref)]

\* services[name]['count'] += 1; services[name]['references'].append(ref)
AddReference(services, name, ref) ==
  LET d == WithDefault(services, name)
      i == KeyIndex(d, name)
  IN  [d EXCEPT ![i].count = @ + 1, ![i].references = Append(@, ref)]

\* aws_service_map.get(match_text.lower(), f'AWS {match_text.capitalize()}')
aws_service_name(match_text) ==
  IF \E i \in 1..Len(aws_service_map) :
       aws_service_map[i][1] = lower(match_text)
  THEN aws_service_map[CHOOSE i \in 1..Len(aws_service_map) :
                         aws_service_map[i][1] = lower(match_text)][2]
  ELSE S_AWS_ \o capitalize(match_text)

\* Reference numbering the lines from 0
Reference_ZeroBased(file_path, line_num, line, match) ==
  [file |-> file_path, line |-> line_num - 1, code |-> strip(line),
   match |-> match.group0]

\* lines 62-67: the reference of a hit
Reference(file_path, line_num, line, match) ==
  [file |-> file_path, line |-> line_num, code |-> strip(line),
   match |-> match.group0]

\* one hit of the first loop: the canonical name and the reference
AwsHit(p, match, file_path, line_num, line) ==
  [name |-> clean_service_name(
              aws_service_name(IF p.grp # 0 THEN match.group1
                               ELSE match.group0)),
   ref  |-> Reference(file_path, line_num, line, match)]

CloudHit(cp, match, file_path, line_num, line) ==
  [name |-> clean_service_name(cp.service),
   ref  |-> Reference(file_path, line_num, line, match)]

\* ImportHit recording the imported identifier instead of the whole match
ImportHit_GroupOne(match, file_path, line_num, line) ==
  LET match_text == match.group1
      ref == [Reference(file_path, line_num, line, match)
                EXCEPT !.match = match.group1]
  IN  IF contains(lower(match_text), S_aws)
      THEN <<[name |-> clean_service_name(S_AWS_SDK), ref |-> ref]>>
      ELSE IF contains(lower(match_text), S_react)
      THEN <<[name |-> clean_service_name(S_React), ref |-> ref]>>
      ELSE IF contains(lower(match_text), S_vue)
      THEN <<[name |-> clean_service_name(S_Vue_js), ref |-> ref]>>
      ELSE <<>>

\* the hits of the third loop: an import whose identifier names a vendor
ImportHit(match, file_path, line_num, line) ==
  LET match_text == match.group1
      ref == Reference(file_path, line_num, line, match)
  IN  IF contains(lower(match_text), S_aws)
      THEN <<[name |-> clean_service_name(S_AWS_SDK), ref |-> ref]>>
      ELSE IF contains(lower(match_text), S_react)
      THEN <<[name |-> clean_service_name(S_React), ref |-> ref]>>
      ELSE IF contains(lower(match_text), S_vue)
      THEN <<[name |-> clean_service_name(S_Vue_js), ref |-> ref]>>
      ELSE <<>>

\* for line_num, line in enumerate(lines, 1): for pattern in aws_patterns
AwsHits(lines, file_path) ==
  ConcatAll([ln \in 1..Len(lines) |->
    ConcatAll([pi \in 1..Len(aws_patterns) |->
      LET ms == finditer(aws_patterns[pi], lines[ln])
      IN  [m \in 1..Len(ms) |->
             AwsHit(aws_patterns[pi], ms[m], file_path, ln, lines[ln])]])])

CloudHits(lines, file_path) ==
  ConcatAll([ln \in 1..Len(lines) |->
    ConcatAll([pi \in 1..Len(cloud_patterns) |->
      LET ms == finditer(cloud_patterns[pi].pattern, lines[ln])
      IN  [m \in 1..Len(ms) |->
             CloudHit(cloud_patterns[pi], ms[m], file_path, ln, lines[ln])]])])

ImportHits(lines, file_path) ==
  ConcatAll([ln \in 1..Len(lines) |->
    ConcatAll([pi \in 1..Len(import_patterns) |->
      LET ms == finditer(import_patterns[pi], lines[ln])
      IN  ConcatAll([m \in 1..Len(ms) |->
             ImportHit(ms[m], file_path, ln, lines[ln])])])])

RECURSIVE AddReferences(_, _)
AddReferences(services, hits) ==
  IF hits = <<>> THEN services
  ELSE AddReferences(AddReference(services, Head(hits).name, Head(hits).ref),
                     Tail(hits))

\* {name: data for name, data in services.items() if data['references']}
WithReferences(services) ==
  SelectIn(services, {services[i] : i \in
                        {j \in 1..Len(services) : services[j].references # <<>>}})

auto_detect_services_with_references(content, file_path) ==
  LET lines == split_lines(content)
  IN  WithReferences(
        AddReferences(<<>>, AwsHits(lines, file_path)
                            \o CloudHits(lines, file_path)
                            \o ImportHits(lines, file_path)))

(***************************************************************************)
(* auto_detect_services: the legacy detector, a dict name -> count.  It    *)
(* matches the whole content at once, counts a keyword pattern once per    *)
(* file, and knows three more import forms and other vendors.              *)
(***************************************************************************)
\* services[name] += 1 on a defaultdict(int)
AddCount(services, name) ==
  LET d == IF HasKey(services, name) THEN services
           ELSE Append(services, [name |-> name, count |-> 0])
      i == KeyIndex(d, name)
  IN  [d EXCEPT ![i].count = @ + 1]

RECURSIVE AddCounts(_, _)
AddCounts(services, names) ==
  IF names = <<>> THEN services
  ELSE AddCounts(AddCount(services, Head(names)), Tail(names))

LegacyAwsNames(content) ==
  ConcatAll([pi \in 1..Len(aws_patterns) |->
    LET ms == findall(aws_patterns[pi], content)
    IN  [m \in 1..Len(ms) |-> clean_service_name(aws_service_name(ms[m]))]])

LegacyCloudNames(content) ==
  ConcatAll([pi \in 1..Len(cloud_patterns) |->
    IF search(cloud_patterns[pi].pattern, content)
    THEN <<clean_service_name(cloud_patterns[pi].service)>> ELSE <<>>])

LegacyImportName(match) ==
  IF contains(lower(match), S_aws)
  THEN <<clean_service_name(S_AWS_SDK)>>
  ELSE IF contains(lower(match), S_azure)
  THEN <<clean_service_name(S_Microsoft_Azure)>>
  ELSE IF contains(lower(match), S_gcp) \/ contains(lower(match), S_google_cloud)
  THEN <<clean_service_name(S_Google_Cloud_Platform)>>
  ELSE <<>>

LegacyImportNames(content) ==
  ConcatAll([pi \in 1..Len(legacy_import_patterns) |->
    LET ms == findall(legacy_import_patterns[pi], content)
    IN  ConcatAll([m \in 1..Len(ms) |-> LegacyImportName(ms[m])])])

auto_detect_services(content) ==
  AddCounts(<<>>, LegacyAwsNames(content) \o LegacyCloudNames(content)
                  \o LegacyImportNames(content))

(***************************************************************************)
(* multi_parser.py: the connection extractors.                             *)
(***************************************************************************)
\* r'depends_on\s*=\s*\[(.*?)\]' with re.DOTALL
depends_pattern ==
  [atoms |-> <<[k |-> "lit", v |-> <<"d","e","p","e","n","d","s","_","o","n">>],
               [k |-> "star", v |-> Whitespace],
               [k |-> "lit", v |-> <<"=">>],
               [k |-> "star", v |-> Whitespace],
               [k |-> "lit", v |-> <<"[">>],
               [k |-> "lazy", v |-> "]"],
               [k |-> "lit", v |-> <<"]">>]>>,
   grp |-> 6, ic |-> FALSE]

\* r'[\w.]+'
dep_pattern ==
  [atoms |-> <<[k |-> "plus", v |-> WordChars \cup {"."}]>>,
   grp |-> 0, ic |-> FALSE]

parse_terraform_deps(content, filename) ==
  LET matches == findall(depends_pattern, content)
  IN  ConcatAll([m \in 1..Len(matches) |->
        LET deps == findall(dep_pattern, matches[m])
        IN  [d \in 1..Len(deps) |-> <<deps[d], filename>>]])

\* the connections of the nodes of a parsed tree, in ast.walk order; a tree
\* is "SyntaxError" when ast.parse raised
RECURSIVE ImportEdges(_, _)
ImportEdges(nodes, filename) ==
  IF nodes = <<>> THEN <<>>
  ELSE LET node == Head(nodes)
       IN  (CASE node.type = "Import" ->
                   [a \in 1..Len(node.names) |-> <<filename, node.names[a]>>]
              [] node.type = "ImportFrom" ->
                   IF node.module # <<>> THEN <<<<filename, node.module>>>>
                   ELSE <<>>
              [] OTHER -> <<>>)
           \o ImportEdges(Tail(nodes), filename)

(***************************************************************************)
(* The files a scanned directory is drawn from.  tree is what ast.parse    *)
(* returns for the content (the import statements and the other nodes, in  *)
(* ast.walk order), content_langs what the content-pattern rules of the    *)
(* language detector yield for it.                                         *)
(***************************************************************************)
ParseOk(nodes) == [ok |-> TRUE, body |-> nodes]

ParseError == [ok |-> FALSE, body |-> <<>>]

app_py ==
  [dir |-> <<>>, name |-> <<"a","p","p",".","p","y">>,
   content |-> <<"i","m","p","o","r","t"," ","b","o","t","o","3","\n","s","3","_","c","l","i","e","n","t",".","u","p","l","o","a","d","_","f","i","l","e","(",".",".",".",")">>,
   tree |-> ParseOk(<<[type |-> "Import", names |-> <<<<"b","o","t","o","3">>>>],
                      [type |-> "Expr"]>>),
   content_langs |-> <<"Python">>]

index_js ==
  [dir |-> <<>>, name |-> <<"i","n","d","e","x",".","j","s">>,
   content |-> <<"r","e","q","u","i","r","e","(","'","a","w","s","-","s","d","k","'",")">>,
   tree |-> ParseError, content_langs |-> <<>>]

main_tf ==
  [dir |-> <<>>, name |-> <<"m","a","i","n",".","t","f">>,
   content |-> <<"r","e","s","o","u","r","c","e"," ","\"","a","w","s","_","i","n","s","t","a","n","c","e","\""," ","\"","x","\""," ","{"," ","d","e","p","e","n","d","s","_","o","n"," ","="," ","[","a","w","s","_","v","p","c",".","m","a","i","n","]"," ","}">>,
   tree |-> ParseError, content_langs |-> <<>>]

net_tf ==
  [dir |-> <<"i","n","f","r","a">>, name |-> <<"n","e","t",".","t","f">>,
   content |-> <<"d","e","p","e","n","d","s","_","o","n"," ","="," ","[","a","w","s","_","s","3","_","b","u","c","k","e","t",".","m","y","-","b","u","c","k","e","t",","," ","a","w","s","_","v","p","c",".","m","a","i","n","]">>,
   tree |-> ParseError, content_langs |-> <<>>]

logo_png ==
  [dir |-> <<>>, name |-> <<"l","o","g","o",".","p","n","g">>,
   content |-> <<"P","N","G","\n","r","e","d","i","s">>,
   tree |-> ParseError, content_langs |-> <<>>]

dot_env ==
  [dir |-> <<>>, name |-> <<".","e","n","v">>,
   content |-> <<"R","E","D","I","S","_","U","R","L","=","r","e","d","i","s",":","/","/","c","a","c","h","e">>,
   tree |-> ParseError, content_langs |-> <<>>]

notes_txt ==
  [dir |-> <<>>, name |-> <<"n","o","t","e","s",".","t","x","t">>,
   content |-> <<"h","e","l","l","o">>,
   tree |-> ParseError, content_langs |-> <<>>]

client_js ==
  [dir |-> <<>>, name |-> <<"c","l","i","e","n","t",".","j","s">>,
   content |-> <<"c","o","n","s","t"," ","A","W","S"," ","="," ","r","e","q","u","i","r","e","(","\"","a","w","s","-","s","d","k","\"",")",";","\n","n","e","w"," ","A","W","S",".","S","3","(",")",";">>,
   tree |-> ParseError, content_langs |-> <<"JavaScript">>]

tool_exe ==
  [dir |-> <<>>, name |-> <<"t","o","o","l",".","e","x","e">>,
   content |-> <<"d","o","c","k","e","r">>,
   tree |-> ParseError, content_langs |-> <<>>]

tool_java ==
  [dir |-> <<>>, name |-> <<"T","o","o","l",".","j","a","v","a">>,
   content |-> <<"#","!","/","u","s","r","/","b","i","n","/","e","n","v"," ","p","y","t","h","o","n","3","\n","p","u","b","l","i","c"," ","c","l","a","s","s"," ","T","o","o","l"," ","{","}">>,
   tree |-> ParseError, content_langs |-> <<"Java">>]

deploy_sh ==
  [dir |-> <<>>, name |-> <<"d","e","p","l","o","y",".","s","h">>,
   content |-> <<"#","!","/","b","i","n","/","b","a","s","h","\n"," "," ","a","w","s"," ","s","3"," ","c","p"," ","a"," ","b"," "," ","\n">>,
   tree |-> ParseError, content_langs |-> <<"Shell">>]

install_txt ==
  [dir |-> <<>>, name |-> <<"i","n","s","t","a","l","l",".","t","x","t">>,
   content |-> <<"n","p","m"," ","i","n","s","t","a","l","l"," ","a","w","s","-","s","d","k">>,
   tree |-> ParseError, content_langs |-> <<>>]

broken_py ==
  [dir |-> <<>>, name |-> <<"b","r","o","k","e","n",".","p","y">>,
   content |-> <<"b","o","t","o","3",".","c","l","i","e","n","t","(","'","s","3","'">>,
   tree |-> ParseError, content_langs |-> <<>>]

Catalogue ==
  <<app_py, index_js, client_js, main_tf, net_tf, logo_png, dot_env, notes_txt,
    tool_exe, tool_java, deploy_sh, install_txt, broken_py>>

FileIds == 1..Len(Catalogue)

\* the largest number of files in the scanned directory
MaxFiles == 2

\* ast.parse(content)
ast_parse(content) ==
  Catalogue[CHOOSE f \in FileIds : Catalogue[f].content = content].tree

\* ParsedImports returning an edge without a target when ast.parse raised
ParsedImports_ErrorEdge(tree, filename) ==
  IF tree.ok THEN ImportEdges(tree.body, filename) ELSE <<<<filename, <<>>>>>>

\* lines 138-150 for the outcome of ast.parse: the bare except swallows the
\* SyntaxError, and connections is returned empty
ParsedImports(tree, filename) ==
  IF tree.ok THEN ImportEdges(tree.body, filename) ELSE <<>>

parse_python_imports(content, filename) ==
  ParsedImports(ast_parse(content), filename)

(***************************************************************************)
(* Paths.                                                                  *)
(***************************************************************************)
\* os.path.splitext(file)[1]: from the last dot, unless only dots precede it
splitext_ext(file) ==
  LET dots == {i \in 1..Len(file) : file[i] = "."}
      d    == IF dots = {} THEN 0 ELSE CHOOSE i \in dots : \A j \in dots : j <= i
  IN  IF d > 0 /\ \E h \in 1..(d - 1) : file[h] # "."
      THEN SubSeq(file, d, Len(file)) ELSE <<>>

\* os.path.relpath(os.path.join(root, file), folder_path)
relpath(f) ==
  IF Catalogue[f].dir = <<>> THEN Catalogue[f].name
  ELSE Catalogue[f].dir \o <<"/">> \o Catalogue[f].name

LANGUAGE_MAP ==
  << <<<<".","p","y">>, "Python">>, <<<<".","j","s">>, "JavaScript">>, <<<<".","t","s">>, "TypeScript">>,
     <<<<".","j","a","v","a">>, "Java">>, <<<<".","c">>, "C">>, <<<<".","c","p","p">>, "C++">>,
     <<<<".","c","c">>, "C++">>, <<<<".","c","x","x">>, "C++">>, <<<<".","h">>, "C/C++">>,
     <<<<".","c","s">>, "C#">>, <<<<".","g","o">>, "Go">>, <<<<".","r","s">>, "Rust">>,
     <<<<".","r","b">>, "Ruby">>, <<<<".","p","h","p">>, "PHP">>, <<<<".","t","f">>, "Terraform">>,
     <<<<".","y","m","l">>, "YAML">>, <<<<".","y","a","m","l">>, "YAML">>, <<<<".","j","s","o","n">>, "JSON">>,
     <<<<".","s","h">>, "Shell">>, <<<<".","b","a","s","h">>, "Bash">>, <<<<".","d","o","c","k","e","r","f","i","l","e">>, "Docker">>,
     <<<<".","s","q","l">>, "SQL">> >>

InLanguageMap(ext) == \E i \in 1..Len(LANGUAGE_MAP) : LANGUAGE_MAP[i][1] = ext

LanguageOf(ext) ==
  LANGUAGE_MAP[CHOOSE i \in 1..Len(LANGUAGE_MAP) : LANGUAGE_MAP[i][1] = ext][2]

\* the extensions both walks of multi_parser.py skip
skipped_extensions ==
  {<<".","e","x","e">>, <<".","b","i","n">>, <<".","s","o">>, <<".","d","l","l">>, <<".","z","i","p">>, <<".","t","a","r">>, <<".","g","z">>}

\* the extensions detect_all_services_with_references skips
binary_extensions ==
  {<<".","p","n","g">>, <<".","j","p","g">>, <<".","j","p","e","g">>, <<".","g","i","f">>, <<".","b","m","p">>, <<".","i","c","o">>, <<".","s","v","g">>, <<".","w","e","b","p">>,
   <<".","m","p","4">>, <<".","a","v","i">>, <<".","m","o","v">>, <<".","w","m","v">>, <<".","f","l","v">>, <<".","w","e","b","m">>,
   <<".","m","p","3">>, <<".","w","a","v">>, <<".","o","g","g">>, <<".","f","l","a","c">>, <<".","a","a","c">>,
   <<".","p","d","f">>, <<".","d","o","c">>, <<".","d","o","c","x">>, <<".","x","l","s">>, <<".","x","l","s","x">>, <<".","p","p","t">>, <<".","p","p","t","x">>,
   <<".","z","i","p">>, <<".","t","a","r">>, <<".","g","z">>, <<".","r","a","r">>, <<".","7","z">>,
   <<".","e","x","e">>, <<".","d","l","l">>, <<".","s","o">>, <<".","d","y","l","i","b">>, <<".","b","i","n">>}

(***************************************************************************)
(* auto_language_detector.py is not among the sources: its three functions *)
(* follow the specification (4.1, 4.2, 4.4).                               *)
(***************************************************************************)
shebang_tokens ==
  << <<<<"p","y","t","h","o","n">>, "Python">>, <<<<"n","o","d","e">>, "JavaScript">>, <<<<"b","a","s","h">>, "Bash">>,
     <<<<"r","u","b","y">>, "Ruby">>, <<<<"s","h">>, "Shell">> >>

\* the language of the first recognised interpreter token of a #! first
\* line, <<>> if there is none
detect_language_from_shebang(content) ==
  LET first == split_lines(content)[1]
      hits  == {i \in 1..Len(shebang_tokens) :
                  contains(first, shebang_tokens[i][1])}
  IN  IF startswith(first, <<"#","!">>) /\ hits # {}
      THEN <<shebang_tokens[CHOOSE i \in hits : \A j \in hits : i <= j][2]>>
      ELSE <<>>

\* the tags of the content-pattern rules that match
detect_language_from_content(content, file) ==
  Catalogue[CHOOSE f \in FileIds : Catalogue[f].content = content].content_langs

\* file_languages going on to the content rules and the extension table
\* after a recognised shebang
file_languages_NoShortCircuit(content, file, ext) ==
  LET shebang_lang == detect_language_from_shebang(content)
      detected_langs == detect_language_from_content(content, file)
  IN  shebang_lang \o detected_langs
      \o (IF detected_langs = <<>> /\ InLanguageMap(ext)
          THEN <<LanguageOf(ext)>> ELSE <<>>)

\* file_languages adding the tag of the extension to the tags of the
\* content rules
file_languages_AlwaysExtension(content, file, ext) ==
  LET shebang_lang == detect_language_from_shebang(content)
      detected_langs == detect_language_from_content(content, file)
  IN  IF shebang_lang # <<>> THEN shebang_lang
      ELSE detected_langs
           \o (IF InLanguageMap(ext) THEN <<LanguageOf(ext)>> ELSE <<>>)

\* lines 101-111: shebang, else content rules, else the extension table
file_languages(content, file, ext) ==
  LET shebang_lang == detect_language_from_shebang(content)
      detected_langs == detect_language_from_content(content, file)
  IN  IF shebang_lang # <<>> THEN shebang_lang
      ELSE detected_langs
           \o (IF detected_langs = <<>> /\ InLanguageMap(ext)
               THEN <<LanguageOf(ext)>> ELSE <<>>)

(***************************************************************************)
(* One iteration of the walk of detect_language_and_services_with_         *)
(* references (multi_parser.py, lines 87-129), for the file f.             *)
(* The per-file values are tables over the catalogue.                      *)
(***************************************************************************)
\* ext = os.path.splitext(file)[1].lower()
FileExt ==
  [f \in FileIds |->
     lower(splitext_ext(Catalogue[f].name))]

\* line 114: file_services = auto_detect_services(content)
FileServices ==
  [f \in FileIds |->
     auto_detect_services(Catalogue[f].content)]

\* lines 101-111: file_languages
FileLanguages ==
  [f \in FileIds |->
     file_languages(Catalogue[f].content, Catalogue[f].name, FileExt[f])]

\* HasSignal without the test: every file that is read gets a FileRecord
HasSignal_Always(langs, file_services) == TRUE

\* line 116: if file_languages or file_services
HasSignal(langs, file_services) == langs # <<>> \/ file_services # <<>>

\* lines 117-121: the FileRecord of f
FileRecord ==
  [f \in FileIds |->
     [file      |-> relpath(f),
         languages |-> FileLanguages[f],
         services  |-> Keys(FileServices[f])]]

\* lines 116-121: file_details after f
WithFileRecord(details, f) ==
  IF HasSignal(FileLanguages[f], FileServices[f])
  THEN Append(details, FileRecord[f]) ELSE details

\* lines 123-126: the connections of f
FileConnections ==
  [f \in FileIds |->
     IF FileExt[f] = <<".","p","y">>
        THEN parse_python_imports(Catalogue[f].content, Catalogue[f].name)
        ELSE IF FileExt[f] = <<".","t","f">>
        THEN parse_terraform_deps(Catalogue[f].content, Catalogue[f].name)
        ELSE <<>>]

(***************************************************************************)
(* One iteration of the walk of detect_all_services_with_references        *)
(* (auto_service_detector.py, lines 261-283).                              *)
(***************************************************************************)
\* file.startswith('.')
IsDotFile ==
  [f \in FileIds |->
     startswith(Catalogue[f].name, <<".">>)]

\* _, ext = os.path.splitext(file.lower()); ext in binary_extensions
IsBinary ==
  [f \in FileIds |->
     splitext_ext(lower(Catalogue[f].name)) \in binary_extensions]

\* line 277: the fragment of f
Fragment ==
  [f \in FileIds |->
     auto_detect_services_with_references(Catalogue[f].content, relpath(f))]

\* MergeService assigning the references of the fragment instead of
\* extending the list with them
MergeService_ReplaceReferences(all, data) ==
  LET d == WithDefault(all, data.name)
      i == KeyIndex(d, data.name)
  IN  [d EXCEPT ![i].count = @ + data.count,
                ![i].references = data.references]

\* MergeService summing the counts only
MergeService_CountOnly(all, data) ==
  LET d == WithDefault(all, data.name)
      i == KeyIndex(d, data.name)
  IN  [d EXCEPT ![i].count = @ + data.count]

\* MergeService assigning the record of the fragment (all_services[service]
\* = data): the file folded last wins
MergeService_Assign(all, data) ==
  LET d == WithDefault(all, data.name)
      i == KeyIndex(d, data.name)
  IN  [d EXCEPT ![i].count = data.count, ![i].references = data.references]

\* MergeService putting the references of the fragment in front of those
\* of the files folded before
MergeService_Prepend(all, data) ==
  LET d == WithDefault(all, data.name)
      i == KeyIndex(d, data.name)
  IN  [d EXCEPT ![i].count = @ + data.count,
                ![i].references = data.references \o @]

\* lines 280-281, for one service of the fragment
MergeService(all, data) ==
  LET d == WithDefault(all, data.name)
      i == KeyIndex(d, data.name)
  IN  [d EXCEPT ![i].count = @ + data.count,
                ![i].references = @ \o data.references]

\* lines 279-281: for service, data in services.items()
RECURSIVE MergeFragment(_, _)
MergeFragment(all, fragment) ==
  IF fragment = <<>> THEN all
  ELSE MergeFragment(MergeService(all, Head(fragment)), Tail(fragment))

(***************************************************************************)
(* auto_detect_languages (not among the sources; specification 4.4, steps  *)
(* 1, 2 and 5): +1 per language tag of every eligible file that is read.   *)
(***************************************************************************)
RECURSIVE auto_detect_languages(_, _, _)
auto_detect_languages(files, unread, tally) ==
  IF files = <<>> THEN tally
  ELSE LET f == Head(files)
       IN  auto_detect_languages(Tail(files), unread,
             IF IsDotFile[f] \/ IsBinary[f] \/ f \in unread THEN tally
             ELSE AddCounts(tally, FileLanguages[f]))

(***************************************************************************)
(* The scan: detect_language_and_services_with_references(folder_path).    *)
(*   exists        the root directory exists and can be listed             *)
(*   walk          the files os.walk yields, in its order                  *)
(*   pc, pos       the position of the scan: the loop and its index        *)
(*   failed1       the files whose open or read raised in the walk of      *)
(*                 multi_parser, failedL in that of the language detector, *)
(*                 failed2 in that of the service detector                 *)
(*   file_fragment the services of the file folded last (line 277)         *)
(*   result        what the scan returned                                  *)
(*   suspended     the locals of the other invocation of the scan, if two  *)
(*                 run at once (id 0: there is no other invocation)        *)
(*   call          a call of one function of the modules on its own, its   *)
(*                 argument and what it returned (fn "none": no such call) *)
(*   upload        the legacy services of the upload handler that called   *)
(*                 the scan (main.py line 47)                              *)
(*   pattern_failure  the files of the second walk in which the matching   *)
(*                 of a rule raised, each with the number of the rule      *)
(*   upload_dir    the files of UPLOAD_DIR (main.py line 27) by name       *)
(*   requests      the upload requests being handled: the position of the  *)
(*                 handler, the uploaded file and the locals               *)
(***************************************************************************)
VARIABLES exists, walk, pc, pos, connections, file_details, languages,
          all_services, file_fragment, failed1, failedL, failed2, result,
          suspended, call, upload, pattern_failure, upload_dir, requests

vars == <<exists, walk, pc, pos, connections, file_details, languages,
          all_services, file_fragment, failed1, failedL, failed2, result,
          suspended, call, upload, pattern_failure,
                 upload_dir, requests>>

Range(s) == {s[k] : k \in 1..Len(s)}

\* os.walk is top-down: the files of the root come before those of a
\* subdirectory; no file is listed twice
Walks ==
  {w \in UNION {[1..n -> FileIds] : n \in 0..MaxFiles} :
     /\ \A a, b \in 1..Len(w) : a # b => w[a] # w[b]
     /\ \A a, b \in 1..Len(w) :
          a < b => ~(Catalogue[w[a]].dir # <<>> /\ Catalogue[w[b]].dir = <<>>)}

NoResult ==
  [status |-> "none", languages |-> <<>>, services |-> <<>>,
   connections |-> <<>>, files |-> <<>>]

\* a single invocation: no other one holds locals
NoScan == [id |-> 0]

\* the scan runs: no function is called on its own
NoCall == [fn |-> "none"]

\* the names and the contents of the uploaded archives: two archives and a
\* file that is not an archive
FileNames == {"a.zip", "b.zip"}

Archives == {<<1, 1, 1>>, <<2, 2>>}

Bodies == Archives \cup {<<0>>}

\* UPLOAD_DIR holds no archive
EmptyDir == [n \in FileNames |-> [exists |-> FALSE, content |-> <<>>]]

\* the upload handler has not converted the services yet
NoUpload == [status |-> "none", services |-> <<>>]

\* os.walk of a directory that does not exist yields nothing: its onerror
\* is None, so the error of the listing is ignored
Init ==
  /\ exists \in BOOLEAN
  /\ walk \in (IF exists THEN Walks ELSE {<<>>})
  /\ pc = "walk1"
  /\ pos = 1
  /\ connections = <<>>
  /\ file_details = <<>>
  /\ languages = <<>>
  /\ all_services = <<>>
  /\ file_fragment = <<>>
  /\ failed1 = {}
  /\ failedL = {}
  /\ failed2 = {}
  /\ result = NoResult
  /\ suspended = NoScan
  /\ call = NoCall
  /\ upload = NoUpload
  /\ pattern_failure = {}
  /\ upload_dir = EmptyDir
  /\ requests = <<>>

\* multi_parser.py line 93: the extension is on the short deny-list
Walk1SkipExt ==
  /\ pc = "walk1" /\ pos <= Len(walk)
  /\ FileExt[walk[pos]] \in skipped_extensions
  /\ pos' = pos + 1
  /\ UNCHANGED <<upload_dir, requests, pattern_failure, upload, call, suspended, exists, walk, pc, connections, file_details, languages,
                 all_services, file_fragment, failed1, failedL, failed2, result>>

\* Walk1ReadFail leaving the loop (break) instead of going on (continue)
Walk1ReadFail_Break ==
  /\ pc = "walk1" /\ pos <= Len(walk)
  /\ FileExt[walk[pos]] \notin skipped_extensions
  /\ failed1' = failed1 \cup {walk[pos]}
  /\ pos' = Len(walk) + 1
  /\ UNCHANGED <<upload_dir, requests, pattern_failure, upload, call, suspended, exists, walk, pc, connections, file_details, languages,
                 all_services, file_fragment, failedL, failed2, result>>

\* lines 96-98, 128-129: open or read raises, the file is skipped
Walk1ReadFail ==
  /\ pc = "walk1" /\ pos <= Len(walk)
  /\ FileExt[walk[pos]] \notin skipped_extensions
  /\ failed1' = failed1 \cup {walk[pos]}
  /\ pos' = pos + 1
  /\ UNCHANGED <<upload_dir, requests, pattern_failure, upload, call, suspended, exists, walk, pc, connections, file_details, languages,
                 all_services, file_fragment, failedL, failed2, result>>

\* Walk1File recording a file either by its connections or by its
\* FileRecord (the extension test chained to the test of line 116)
Walk1File_ConnectionsInstead ==
  /\ pc = "walk1" /\ pos <= Len(walk)
  /\ FileExt[walk[pos]] \notin skipped_extensions
  /\ file_details' = IF FileConnections[walk[pos]] # <<>> THEN file_details
                      ELSE WithFileRecord(file_details, walk[pos])
  /\ connections' = connections \o FileConnections[walk[pos]]
  /\ pos' = pos + 1
  /\ UNCHANGED <<upload_dir, requests, pattern_failure, upload, call, suspended, exists, walk, pc, languages, all_services, file_fragment,
                 failed1, failedL, failed2, result>>

\* lines 96-126: the file is read
Walk1File ==
  /\ pc = "walk1" /\ pos <= Len(walk)
  /\ FileExt[walk[pos]] \notin skipped_extensions
  /\ file_details' = WithFileRecord(file_details, walk[pos])
  /\ connections' = connections \o FileConnections[walk[pos]]
  /\ pos' = pos + 1
  /\ UNCHANGED <<upload_dir, requests, pattern_failure, upload, call, suspended, exists, walk, pc, languages, all_services, file_fragment,
                 failed1, failedL, failed2, result>>

\* line 131: languages = auto_detect_languages(folder_path)
AutoDetectLanguages ==
  /\ pc = "walk1" /\ pos > Len(walk)
  /\ \E unread \in SUBSET {f \in Range(walk) : ~IsDotFile[f] /\ ~IsBinary[f]} :
       /\ languages' = auto_detect_languages(walk, unread, <<>>)
       /\ failedL' = unread
  /\ pc' = "walk2"
  /\ pos' = 1
  /\ UNCHANGED <<upload_dir, requests, pattern_failure, upload, call, suspended, exists, walk, connections, file_details, all_services,
                 file_fragment, failed1, failed2, result>>

\* auto_service_detector.py lines 263-264
Walk2SkipDot ==
  /\ pc = "walk2" /\ pos <= Len(walk)
  /\ IsDotFile[walk[pos]]
  /\ pos' = pos + 1
  /\ UNCHANGED <<upload_dir, requests, pattern_failure, upload, call, suspended, exists, walk, pc, connections, file_details, languages,
                 all_services, file_fragment, failed1, failedL, failed2, result>>

\* lines 267-269
Walk2SkipBinary ==
  /\ pc = "walk2" /\ pos <= Len(walk)
  /\ ~IsDotFile[walk[pos]] /\ IsBinary[walk[pos]]
  /\ pos' = pos + 1
  /\ UNCHANGED <<upload_dir, requests, pattern_failure, upload, call, suspended, exists, walk, pc, connections, file_details, languages,
                 all_services, file_fragment, failed1, failedL, failed2, result>>

\* lines 274-276, 282-283
Walk2ReadFail ==
  /\ pc = "walk2" /\ pos <= Len(walk)
  /\ ~IsDotFile[walk[pos]] /\ ~IsBinary[walk[pos]]
  /\ failed2' = failed2 \cup {walk[pos]}
  /\ pos' = pos + 1
  /\ UNCHANGED <<upload_dir, requests, pattern_failure, upload, call, suspended, exists, walk, pc, connections, file_details, languages,
                 all_services, file_fragment, failed1, failedL, result>>

\* the rules whose failure is followed: the service keywords and aws\s+name
FailingRules == {3, 6}

\* line 277 raises inside re.finditer of the rule aws_patterns[rule] (lines
\* 53-55), and the except of lines 282-283 goes on with the next file
Walk2PatternFail ==
  /\ pc = "walk2" /\ pos <= Len(walk)
  /\ ~IsDotFile[walk[pos]] /\ ~IsBinary[walk[pos]]
  /\ \E rule \in FailingRules :
       pattern_failure' = pattern_failure
                            \cup {[file |-> walk[pos], rule |-> rule]}
  /\ failed2' = failed2 \cup {walk[pos]}
  /\ pos' = pos + 1
  /\ UNCHANGED <<upload_dir, requests, upload, call, suspended, exists, walk, pc, connections, file_details, languages,
                 all_services, file_fragment, failed1, failedL, result>>

\* lines 274-281
Walk2File ==
  /\ pc = "walk2" /\ pos <= Len(walk)
  /\ ~IsDotFile[walk[pos]] /\ ~IsBinary[walk[pos]]
  /\ file_fragment' = Fragment[walk[pos]]
  /\ all_services' = MergeFragment(all_services, Fragment[walk[pos]])
  /\ pos' = pos + 1
  /\ UNCHANGED <<upload_dir, requests, pattern_failure, upload, call, suspended, exists, walk, pc, connections, file_details, languages,
                 failed1, failedL, failed2, result>>

\* auto_service_detector.py line 285 and multi_parser.py line 134
Return ==
  /\ pc = "walk2" /\ pos > Len(walk)
  /\ result' = [status |-> "returned", languages |-> languages,
                services |-> all_services, connections |-> connections,
                files |-> file_details]
  /\ pc' = "done"
  /\ UNCHANGED <<upload_dir, requests, pattern_failure, upload, call, suspended, exists, walk, pos, connections, file_details, languages,
                 all_services, file_fragment, failed1, failedL, failed2>>

\* the comprehension counting every service once
LegacyServices_Presence(services_with_refs) ==
  [k \in 1..Len(services_with_refs) |->
     [name |-> services_with_refs[k].name, count |-> 1]]

\* main.py line 47: {name: data['count'] for name, data in
\* services_with_refs.items()}
LegacyServices(services_with_refs) ==
  [k \in 1..Len(services_with_refs) |->
     [name  |-> services_with_refs[k].name,
      count |-> services_with_refs[k].count]]

\* main.py lines 44-47: the upload handler converts what the scan returned
UploadProject ==
  /\ pc = "done" /\ result.status = "returned"
  /\ upload.status = "none"
  /\ upload' = [status |-> "converted",
                services |-> LegacyServices(result.services)]
  /\ UNCHANGED <<upload_dir, requests, pattern_failure, call, suspended, exists, walk, pc, pos, connections,
                 file_details, languages, all_services, file_fragment,
                 failed1, failedL, failed2, result>>

Next ==
  \/ Walk1SkipExt
  \/ Walk1ReadFail
  \/ Walk1File
  \/ AutoDetectLanguages
  \/ Walk2SkipDot
  \/ Walk2SkipBinary
  \/ Walk2ReadFail
  \/ Walk2File
  \/ Return
  \/ UploadProject

Spec == Init /\ [][Next]_vars

\* every loop iteration and every call of the scan is eventually executed
FairSpec == Spec /\ WF_vars(Next)

(***************************************************************************)
(* Properties.                                                             *)
(***************************************************************************)
IdOf(file) == CHOOSE f \in FileIds : Catalogue[f] = file

Done == pc = "done"

\* the scan returned languages {}, services {}, connections [], files []
EmptyResult ==
  /\ result.status = "returned"
  /\ result.languages = <<>> /\ result.services = <<>>
  /\ result.connections = <<>> /\ result.files = <<>>

\* every attempt of the scan to open or read f raised, and there was one
Unreadable(f) ==
  /\ f \in failed1 \cup failedL \cup failed2
  /\ FileExt[f] \notin skipped_extensions => f \in failed1
  /\ (~IsDotFile[f] /\ ~IsBinary[f]) => f \in failedL /\ f \in failed2

\* every file of the directory was read wherever the scan tried to
AllRead == failed1 = {} /\ failedL = {} /\ failed2 = {}

\* the references of a tally
RefsOf(tally) ==
  UNION {Range(tally[k].references) : k \in 1..Len(tally)}

\* C1: in every state of a scan, in the fragment of every file and in the
\* returned result, the count of a service record is the length of its
\* list of references.
C1_CountIsLenReferences ==
  \A tally \in {all_services, file_fragment, result.services} :
    \A k \in 1..Len(tally) : tally[k].count = Len(tally[k].references)

\* a scan that merged the references of two files into one record
C1_Witness ==
  /\ Done
  /\ \E k \in 1..Len(result.services) :
       /\ result.services[k].count >= 2
       /\ \E r1, r2 \in Range(result.services[k].references) :
            r1.file # r2.file

\* C2: no record with an empty list of references (or count 0) is in the
\* services a scan returns, whatever files are there and whichever reads
\* fail.
C2_NoEmptyRecord ==
  Done => \A k \in 1..Len(result.services) :
            /\ result.services[k].references # <<>>
            /\ result.services[k].count # 0

\* a scan that returned services although a read of its second walk failed
C2_Witness == Done /\ result.services # <<>> /\ failed2 # {}

\* C3: every FileRecord has a language or a service, and a file with neither
\* signal has no FileRecord.
C3_FileRecordHasSignal ==
  /\ \A k \in 1..Len(file_details) :
       file_details[k].languages # <<>> \/ file_details[k].services # <<>>
  /\ \A k \in 1..Len(result.files) :
       result.files[k].languages # <<>> \/ result.files[k].services # <<>>
  /\ \A f \in Range(walk) :
       (FileLanguages[f] = <<>> /\ FileServices[f] = <<>>)
       => \A k \in 1..Len(file_details) : file_details[k].file # relpath(f)

\* a scan that read a file with no signal and returned the FileRecord of
\* another file
C3_Witness ==
  /\ Done
  /\ IdOf(notes_txt) \in Range(walk) \ failed1
  /\ result.files # <<>>

\* C4: a file whose name starts with '.' or whose extension is on the binary
\* deny-list contributes no FileRecord, no reference and no connection, and
\* a directory with only a .png file yields the fully empty result.
C4_DenyListSkipped ==
  Done =>
    /\ \A f \in Range(walk) :
         (IsDotFile[f] \/ IsBinary[f]) =>
           /\ \A k \in 1..Len(result.files) : result.files[k].file # relpath(f)
           /\ \A r \in RefsOf(result.services) : r.file # relpath(f)
           /\ \A k \in 1..Len(result.connections) :
                /\ result.connections[k][1] # Catalogue[f].name
                /\ result.connections[k][2] # Catalogue[f].name
    /\ walk = <<IdOf(logo_png)>> => EmptyResult

RECURSIVE Without(_, _)
Without(w, f) ==
  IF w = <<>> THEN <<>>
  ELSE (IF Head(w) = f THEN <<>> ELSE <<Head(w)>>) \o Without(Tail(w), f)

\* the FileRecords of a directory listed as w whose files in unread cannot
\* be read
RECURSIVE ScanFiles(_, _)
ScanFiles(w, unread) ==
  IF w = <<>> THEN <<>>
  ELSE (IF FileExt[Head(w)] \in skipped_extensions \/ Head(w) \in unread
        THEN <<>> ELSE WithFileRecord(<<>>, Head(w)))
       \o ScanFiles(Tail(w), unread)

\* its connections
RECURSIVE ScanConnections(_, _)
ScanConnections(w, unread) ==
  IF w = <<>> THEN <<>>
  ELSE (IF FileExt[Head(w)] \in skipped_extensions \/ Head(w) \in unread
        THEN <<>> ELSE FileConnections[Head(w)])
       \o ScanConnections(Tail(w), unread)

\* its services
RECURSIVE ScanServices(_, _, _)
ScanServices(w, unread, all) ==
  IF w = <<>> THEN all
  ELSE ScanServices(Tail(w), unread,
         IF IsDotFile[Head(w)] \/ IsBinary[Head(w)] \/ Head(w) \in unread
         THEN all ELSE MergeFragment(all, Fragment[Head(w)]))

\* C6: a file that cannot be opened or read is skipped without an error: the
\* services, connections and files returned are those of the same directory
\* without that file.
C6_UnreadableFileSkipped ==
  Done => \A f \in Range(walk) :
    Unreadable(f) =>
      /\ result.status = "returned"
      /\ result.files = ScanFiles(Without(walk, f), failed1)
      /\ result.connections = ScanConnections(Without(walk, f), failed1)
      /\ result.services = ScanServices(Without(walk, f), failed2, <<>>)

\* a scan of an unreadable file and a readable one that has a FileRecord,
\* a connection and a service
C6_Witness ==
  /\ Done
  /\ \E f \in Range(walk) : Unreadable(f)
  /\ result.files # <<>> /\ result.connections # <<>> /\ result.services # <<>>

\* C7: the scan of an existing root terminates and returns a ScanResult
\* whichever reads fail, and a root with only unreadable or binary files
\* returns the fully empty result.  The second half, as a state predicate:
C7_OnlyUnreadableOrBinaryIsEmpty ==
  (Done /\ exists /\ \A f \in Range(walk) : Unreadable(f) \/ IsBinary[f])
  => EmptyResult

\* the first half of C7, under FairSpec: the scan reaches its return
C7_ScanReturns == <>(Done /\ result.status = "returned")

\* C8: the scan of a directory whose only file is app.py (import boto3 and
\* a call s3_client.upload_file(...)) returns languages {"Python": 1} and a
\* service AWS S3 or AWS SDK with count >= 1 and a reference in app.py.
C8_ScenarioA ==
  (Done /\ walk = <<IdOf(app_py)>> /\ AllRead) =>
    /\ result.languages = <<[name |-> "Python", count |-> 1]>>
    /\ \E k \in 1..Len(result.services) :
         /\ result.services[k].name \in {<<"A","W","S"," ","S","3">>, S_AWS_SDK}
         /\ result.services[k].count >= 1
         /\ \E r \in Range(result.services[k].references) :
              r.file = <<"a","p","p",".","p","y">>

\* the .js files of the catalogue whose only import syntax is one
\* require of aws-sdk, and the text of that require up to the closing quote
RequireFiles == {IdOf(index_js), IdOf(client_js)}

RequireMatch(f) ==
  IF f = IdOf(index_js) THEN <<"r","e","q","u","i","r","e","(","'","a","w","s","-","s","d","k","'">> ELSE <<"r","e","q","u","i","r","e","(","\"","a","w","s","-","s","d","k","\"">>

\* C9: the scan of a directory with one .js file whose only import syntax
\* is require('aws-sdk') returns exactly one record named "AWS SDK", with
\* count 1 and one reference, whose match is the matched import expression.
C9_ScenarioD ==
  \A f \in RequireFiles :
    (Done /\ walk = <<f>> /\ f \notin failed2) =>
      /\ Cardinality({k \in 1..Len(result.services) :
                        result.services[k].name = S_AWS_SDK}) = 1
      /\ \A k \in 1..Len(result.services) :
           result.services[k].name = S_AWS_SDK =>
             /\ result.services[k].count = 1
             /\ Len(result.services[k].references) = 1
             /\ result.services[k].references[1].match = RequireMatch(f)
             /\ result.services[k].references[1].file = Catalogue[f].name

\* the scan of the directory whose only file is client.js
C9_Witness ==
  /\ Done /\ walk = <<IdOf(client_js)>> /\ failed2 = {}
  /\ \E k \in 1..Len(result.services) : result.services[k].name = S_AWS_SDK

\* the tokens listed in the depends_on declarations of a content: the
\* elements between the brackets, separated by commas, without the
\* surrounding blanks
ListedTokens(content) ==
  LET lists == findall(depends_pattern, content)
  IN  ConcatAll([m \in 1..Len(lists) |->
        LET parts == split_on(lists[m], ",")
        IN  ConcatAll([k \in 1..Len(parts) |->
              IF strip(parts[k]) = <<>> THEN <<>> ELSE <<strip(parts[k])>>])])

\* C10: for a .tf file with a depends_on = [t1, ..., tn] declaration the
\* extractor emits exactly one connection (ti, file) per listed token and
\* no other.
C10_OneConnectionPerToken ==
  \A f \in Range(walk) :
    (Done /\ walk = <<f>> /\ FileExt[f] = <<".","t","f">> /\ f \notin failed1) =>
      result.connections =
        [k \in 1..Len(ListedTokens(Catalogue[f].content)) |->
           <<ListedTokens(Catalogue[f].content)[k], Catalogue[f].name>>]

(***************************************************************************)
(* C11: a recognised shebang short-circuits the other language rules.      *)
(***************************************************************************)
\* line 103: shebang_lang of every file of the catalogue
ShebangLang ==
  [f \in FileIds |-> detect_language_from_shebang(Catalogue[f].content)]

\* the files of the catalogue whose first line the shebang resolver recognises
ShebangFiles == {f \in FileIds : ShebangLang[f] # <<>>}

\* C11: in every state of a scan and in the result, the FileRecord of a file
\* whose first line the shebang resolver recognises lists exactly the
\* language of the shebang, whatever its body and its extension are
C11_ShebangShortCircuits ==
  \A details \in {file_details, result.files} :
    \A k \in 1..Len(details) : \A f \in ShebangFiles :
      details[k].file = relpath(f) => details[k].languages = ShebangLang[f]

\* a scan returned the FileRecord of Tool.java, a Java file by extension and
\* by content whose first line is #!/usr/bin/env python3
C11_Witness ==
  /\ Done
  /\ \E k \in 1..Len(result.files) :
       /\ result.files[k].file = relpath(IdOf(tool_java))
       /\ result.files[k].languages = <<"Python">>

(***************************************************************************)
(* C12: a second scan of the same directory.                               *)
(***************************************************************************)
\* the number of times x occurs in the sequence s
Times(s, x) == Cardinality({k \in 1..Len(s) : s[k] = x})

\* the same elements the same number of times, in any order
SameBag(s, t) ==
  /\ Len(s) = Len(t)
  /\ \A x \in Range(s) \cup Range(t) : Times(s, x) = Times(t, x)

\* two tallies with the same names, and under each name the same count and
\* (for a ServiceTally) the same references, in any order
SameTally(t1, t2) ==
  /\ Range(Keys(t1)) = Range(Keys(t2))
  /\ \A a \in 1..Len(t1) : \A b \in 1..Len(t2) :
       t1[a].name = t2[b].name =>
         /\ t1[a].count = t2[b].count
         /\ "references" \in DOMAIN t1[a] =>
              SameBag(t1[a].references, t2[b].references)

\* the orders in which os.walk may list the directory of this scan
Relistings == {w \in Walks : Range(w) = Range(walk)}

\* C12: another scan of the same directory, with the same files readable and
\* in whichever order the walk lists them, returns the languages and the
\* services this scan returned: the same names, the same counts and the
\* same references up to their order.
C12_RescanSameTallies ==
  Done => \A w \in Relistings :
    /\ SameTally(result.languages, auto_detect_languages(w, failedL, <<>>))
    /\ SameTally(result.services, ScanServices(w, failed2, <<>>))

\* a scan of two files that share a service, which a scan listing them in
\* the other order returns with its references in another order
C12_Witness ==
  /\ Done /\ AllRead /\ Len(walk) = 2
  /\ Len(result.languages) >= 1
  /\ \E k \in 1..Len(result.services) :
       \E r1, r2 \in Range(result.services[k].references) : r1.file # r2.file
  /\ \E w \in Relistings : result.services # ScanServices(w, failed2, <<>>)

(***************************************************************************)
(* C13: two invocations of the scan at once, on two directories.  Every    *)
(* aggregate of the scan is a local of its invocation (connections and     *)
(* file_details, multi_parser.py lines 84-85; all_services,                *)
(* auto_service_detector.py line 251; services, line 23), and the modules  *)
(* keep no tally.  The variables hold the locals of the invocation that    *)
(* runs; suspended holds those of the other one.                           *)
(***************************************************************************)
\* the largest number of files in the directory of the first invocation
MaxConcurrentFiles == 1

\* the locals of the invocation that runs
Locals(id) ==
  [id |-> id, exists |-> exists, walk |-> walk, pc |-> pc, pos |-> pos,
   connections |-> connections, file_details |-> file_details,
   languages |-> languages, all_services |-> all_services,
   file_fragment |-> file_fragment, failed1 |-> failed1,
   failedL |-> failedL, failed2 |-> failed2, result |-> result]

\* the locals of an invocation that has not run yet, on a directory listed
\* as w (lines 84-85)
FreshScan(id, w) ==
  [id |-> id, exists |-> TRUE, walk |-> w, pc |-> "walk1", pos |-> 1,
   connections |-> <<>>, file_details |-> <<>>, languages |-> <<>>,
   all_services |-> <<>>, file_fragment |-> <<>>, failed1 |-> {},
   failedL |-> {}, failed2 |-> {}, result |-> NoResult]

\* the directory of the second invocation: client.js
OtherWalks == {<<IdOf(client_js)>>}

ConcurrentInit ==
  /\ exists = TRUE
  /\ walk \in {w \in Walks : Len(w) <= MaxConcurrentFiles}
  /\ pc = "walk1"
  /\ pos = 1
  /\ connections = <<>>
  /\ file_details = <<>>
  /\ languages = <<>>
  /\ all_services = <<>>
  /\ file_fragment = <<>>
  /\ failed1 = {}
  /\ failedL = {}
  /\ failed2 = {}
  /\ result = NoResult
  /\ suspended \in {FreshScan(2, w) : w \in OtherWalks}
  /\ call = NoCall
  /\ upload = NoUpload
  /\ pattern_failure = {}
  /\ upload_dir = EmptyDir
  /\ requests = <<>>
  /\ upload = NoUpload

\* Switch with all_services a tally of the module, shared by the invocations
Switch_SharedTally ==
  /\ suspended.id # 0
  /\ suspended' = Locals(3 - suspended.id)
  /\ exists' = suspended.exists
  /\ walk' = suspended.walk
  /\ pc' = suspended.pc
  /\ pos' = suspended.pos
  /\ connections' = suspended.connections
  /\ file_details' = suspended.file_details
  /\ languages' = suspended.languages
  /\ all_services' = all_services
  /\ file_fragment' = suspended.file_fragment
  /\ failed1' = suspended.failed1
  /\ failedL' = suspended.failedL
  /\ failed2' = suspended.failed2
  /\ result' = suspended.result
  /\ UNCHANGED <<call, upload, pattern_failure, upload_dir, requests>>

\* the scheduler runs the other invocation: between two steps of one scan
\* the other scan takes steps, each on its own locals
Switch ==
  /\ suspended.id # 0
  /\ suspended' = Locals(3 - suspended.id)
  /\ exists' = suspended.exists
  /\ walk' = suspended.walk
  /\ pc' = suspended.pc
  /\ pos' = suspended.pos
  /\ connections' = suspended.connections
  /\ file_details' = suspended.file_details
  /\ languages' = suspended.languages
  /\ all_services' = suspended.all_services
  /\ file_fragment' = suspended.file_fragment
  /\ failed1' = suspended.failed1
  /\ failedL' = suspended.failedL
  /\ failed2' = suspended.failed2
  /\ result' = suspended.result
  /\ UNCHANGED <<call, upload, pattern_failure, upload_dir, requests>>

\* the steps of the scan that runs, and the switch to the other scan
ConcurrentNext ==
  \/ Walk1SkipExt
  \/ Walk1ReadFail
  \/ Walk1File
  \/ AutoDetectLanguages
  \/ Walk2SkipDot
  \/ Walk2SkipBinary
  \/ Walk2ReadFail
  \/ Walk2File
  \/ Return
  \/ Switch

ConcurrentSpec == ConcurrentInit /\ [][ConcurrentNext]_vars

\* the invocation that runs
RunningId == IF suspended.id = 1 THEN 2 ELSE 1

\* an invocation returned what the scan of its directory returns alone
ReturnedAsAlone(scan) ==
  scan.pc = "done" =>
    /\ scan.result.services = ScanServices(scan.walk, scan.failed2, <<>>)
    /\ scan.result.connections = ScanConnections(scan.walk, scan.failed1)
    /\ scan.result.files = ScanFiles(scan.walk, scan.failed1)

\* C13: under every interleaving of the steps of two scans, each scan
\* returns the services, connections and files it returns when it runs
\* alone: no aggregate is shared.
C13_NoSharedAggregate ==
  /\ ReturnedAsAlone(Locals(RunningId))
  /\ suspended.id # 0 => ReturnedAsAlone(suspended)

\* the first scan ran from its first step to its return while the second
\* one held a tally with a service the first one returned too
C13_Witness ==
  /\ suspended.id = 2 /\ suspended.pc = "walk2"
  /\ Done /\ result.status = "returned"
  /\ \E a \in 1..Len(result.services) : \E b \in 1..Len(suspended.all_services) :
       result.services[a].name = suspended.all_services[b].name

(***************************************************************************)
(* C14: the references are well formed.                                    *)
(***************************************************************************)
\* content.split('\n') of every file of the catalogue
FileLines == [f \in FileIds |-> split_lines(Catalogue[f].content)]

\* r is a reference to a line of the file f, under its root-relative path
WellFormed(r, f) ==
  /\ r.file = relpath(f)
  /\ r.line \in 1..Len(FileLines[f])
  /\ r.code = strip(FileLines[f][r.line])
  /\ contains(FileLines[f][r.line], r.match)

\* the files the second walk has folded or may fold
Scanned == {f \in Range(walk) : ~IsDotFile[f] /\ ~IsBinary[f] /\ f \notin failed2}

\* C14: every reference of the fragment of a file, of the running tally and
\* of the returned services names the root-relative path of a scanned file,
\* the 1-based number of one of its lines, the trimmed text of that line and
\* a substring of that line; the references of one fragment name one file.
C14_ReferencesWellFormed ==
  /\ \A tally \in {file_fragment, all_services, result.services} :
       \A r \in RefsOf(tally) : \E f \in Scanned : WellFormed(r, f)
  /\ \A r1, r2 \in RefsOf(file_fragment) : r1.file = r2.file

\* a scan returned a reference to an indented second line and a reference
\* to a file of a subdirectory
C14_Witness ==
  /\ Done
  /\ \E r \in RefsOf(result.services) :
       /\ r.file = relpath(IdOf(deploy_sh)) /\ r.line = 2
       /\ r.code # FileLines[IdOf(deploy_sh)][2]
  /\ \E r \in RefsOf(result.services) : r.file = relpath(IdOf(net_tf))

(***************************************************************************)
(* C15, C16: clean_service_name called on its own, on the names made of up *)
(* to MaxTokens words joined by a space, '_' or '-'.                       *)
(***************************************************************************)
\* the words of the names
Words ==
  {<<"A","W","S">>, <<"A","m","a","z","o","n">>, <<"W","e","b">>, <<"S","e","r","v","i","c","e","s">>, <<"S","i","m","p","l","e">>, <<"S","t","o","r","a","g","e">>,
   <<"s","3">>, <<"E","l","a","s","t","i","c","l","o","a","d","b","a","l","a","n","c","i","n","g">>}

\* the largest number of words of a name
MaxTokens == 4

RECURSIVE JoinWith(_, _)
JoinWith(parts, sep) ==
  IF Len(parts) = 1 THEN parts[1]
  ELSE parts[1] \o <<sep>> \o JoinWith(Tail(parts), sep)

ServiceNames ==
  {JoinWith(parts, sep) :
     parts \in UNION {[1..n -> Words] : n \in 1..MaxTokens},
     sep \in {" ", "_", "-"}}
  \cup {<<"A","m","a","z","o","n"," ","W","e","b"," ","S","e","r","v","i","c","e","s"," ","S","i","m","p","l","e"," ","S","t","o","r","a","g","e">>,
        <<" "," ","A","W","S","_","s","3","-","S","i","m","p","l","e"," ","S","t","o","r","a","g","e"," ">>}

\* no scan runs
NotScanning ==
  /\ exists = FALSE
  /\ walk = <<>>
  /\ pc = "idle"
  /\ pos = 1
  /\ connections = <<>>
  /\ file_details = <<>>
  /\ languages = <<>>
  /\ all_services = <<>>
  /\ file_fragment = <<>>
  /\ failed1 = {}
  /\ failedL = {}
  /\ failed2 = {}
  /\ result = NoResult
  /\ suspended = NoScan
  /\ upload = NoUpload
  /\ pattern_failure = {}
  /\ upload_dir = EmptyDir
  /\ requests = <<>>

CleanInit ==
  /\ NotScanning
  /\ call \in {[fn |-> "clean_service_name", service_name |-> name,
                returned |-> FALSE, clean_name |-> <<>>] :
                 name \in ServiceNames}

\* clean_service_name(service_name) returns
CleanServiceName ==
  /\ call.fn = "clean_service_name" /\ ~call.returned
  /\ call' = [call EXCEPT !.returned = TRUE,
                          !.clean_name = clean_service_name(call.service_name)]
  /\ UNCHANGED <<exists, walk, pc, pos, connections, file_details, languages,
                 all_services, file_fragment, failed1, failedL, failed2,
                 result, suspended, upload, pattern_failure,
                 upload_dir, requests>>

CleanNext == CleanServiceName

CleanSpec == CleanInit /\ [][CleanNext]_vars

\* clean_service_name has returned
Cleaned == call.fn = "clean_service_name" /\ call.returned

\* the tokens of a name: split on whitespace, '_' and '-'
TokensOf(name) ==
  split_ws(replace_c(replace_c(strip(name), "_", " "), "-", " "))

\* C15: for a name of more than 3 tokens, clean_service_name returns the
\* first 2, in their order, of all its tokens that are longer than 2
\* characters and are none of aws, amazon, service, joined by one space
\* (stated for the names that have such a token).
C15_FirstTwoMeaningfulTokens ==
  Cleaned =>
    LET tokens == TokensOf(call.service_name)
    IN  (Len(tokens) > 3 /\ MeaningfulParts(tokens) # <<>>) =>
          call.clean_name = join_sp(Take(MeaningfulParts(tokens), 2))

\* C16: the name clean_service_name returns has at most 30 characters, or
\* is 30 characters followed by "...".
C16_LengthCapped ==
  Cleaned =>
    \/ Len(call.clean_name) <= 30
    \/ /\ Len(call.clean_name) = 33
       /\ SubSeq(call.clean_name, 31, 33) = S_ellipsis

(***************************************************************************)
(* C17: the legacy view of the upload handler.                             *)
(***************************************************************************)
\* C17: the {name: count} services of the upload handler have the keys of
\* the services the scan returned, and under each key the count of that
\* service, which is the number of its references and at least 1.
C17_LegacyViewDerivable ==
  upload.status = "converted" =>
    /\ Keys(upload.services) = Keys(result.services)
    /\ \A k \in 1..Len(upload.services) :
         /\ upload.services[k].count = result.services[k].count
         /\ upload.services[k].count = Len(result.services[k].references)
         /\ upload.services[k].count >= 1

\* the handler converted services of which one has several references
C17_Witness ==
  /\ upload.status = "converted"
  /\ \E k \in 1..Len(upload.services) : upload.services[k].count >= 2

(***************************************************************************)
(* C18: the services of a FileRecord and the references of the tally.      *)
(***************************************************************************)
\* the tally t has a record named s with a reference in the file path
ReferencedIn(t, s, path) ==
  \E j \in 1..Len(t) :
    /\ t[j].name = s
    /\ \E n \in 1..Len(t[j].references) : t[j].references[n].file = path

\* C18: a returned FileRecord lists a service exactly when the returned
\* tally has a record of that name with a reference in the file of the
\* FileRecord.
C18_FileServicesFromTally ==
  Done =>
    \A k \in 1..Len(result.files) :
      \A s \in Range(result.files[k].services) \cup Range(Keys(result.services)) :
        s \in Range(result.files[k].services)
          <=> ReferencedIn(result.services, s, result.files[k].file)

(***************************************************************************)
(* C19: the aggregate tally is the merge by name of the per-file fragments.*)
(***************************************************************************)
\* the files of the walk that the second walk reads, in walk order
Eligible ==
  SelectSeq(walk, LAMBDA f : ~IsDotFile[f] /\ ~IsBinary[f] /\ f \notin failed2)

\* the count and the references of the service s in one fragment
CountIn(fragment, s) ==
  IF HasKey(fragment, s) THEN fragment[KeyIndex(fragment, s)].count ELSE 0

ReferencesIn(fragment, s) ==
  IF HasKey(fragment, s) THEN fragment[KeyIndex(fragment, s)].references
  ELSE <<>>

\* the sum of the counts and the concatenation of the references of s over
\* the fragments of the files w
RECURSIVE SumOfCounts(_, _)
SumOfCounts(w, s) ==
  IF w = <<>> THEN 0
  ELSE CountIn(Fragment[Head(w)], s) + SumOfCounts(Tail(w), s)

RECURSIVE ConcatOfReferences(_, _)
ConcatOfReferences(w, s) ==
  IF w = <<>> THEN <<>>
  ELSE ReferencesIn(Fragment[Head(w)], s) \o ConcatOfReferences(Tail(w), s)

\* C19: the returned tally has one record for each service name of the
\* fragments of the eligible files that were read and for no other name;
\* its count is the sum of the per-file counts and its references are the
\* per-file reference lists concatenated in walk order.
C19_AggregateIsMergeOfFragments ==
  Done =>
    /\ Range(Keys(result.services))
         = UNION {Range(Keys(Fragment[Eligible[k]])) : k \in 1..Len(Eligible)}
    /\ \A j, k \in 1..Len(result.services) :
         result.services[j].name = result.services[k].name => j = k
    /\ \A j \in 1..Len(result.services) :
         /\ result.services[j].count
              = SumOfCounts(Eligible, result.services[j].name)
         /\ result.services[j].references
              = ConcatOfReferences(Eligible, result.services[j].name)

\* a returned service has references of two files, those of the file listed
\* first in front
C19_Witness ==
  /\ Done /\ Len(Eligible) = 2
  /\ \E j \in 1..Len(result.services) :
       LET refs == result.services[j].references
       IN  /\ Len(refs) >= 2
           /\ refs[1].file = relpath(Eligible[1])
           /\ refs[Len(refs)].file = relpath(Eligible[2])

(***************************************************************************)
(* C20: every pattern hit of a file is recorded once.                      *)
(***************************************************************************)
RECURSIVE SumSeq(_)
SumSeq(ns) == IF ns = <<>> THEN 0 ELSE Head(ns) + SumSeq(Tail(ns))

\* the identifier of an import hit contains a known vendor substring
VendorImport(match) ==
  \/ contains(lower(match.group1), S_aws)
  \/ contains(lower(match.group1), S_react)
  \/ contains(lower(match.group1), S_vue)

\* the number of hits of the three pattern tables in one line
PatternHits(line) ==
  SumSeq([pi \in 1..Len(aws_patterns) |->
            Len(finditer(aws_patterns[pi], line))])
  + SumSeq([pi \in 1..Len(cloud_patterns) |->
              Len(finditer(cloud_patterns[pi].pattern, line))])
  + SumSeq([pi \in 1..Len(import_patterns) |->
              LET ms == finditer(import_patterns[pi], line)
              IN  Cardinality({m \in 1..Len(ms) : VendorImport(ms[m])})])

\* the number of hits of every line of every file
HitsOnLine ==
  [f \in FileIds |->
     [ln \in 1..Len(FileLines[f]) |-> PatternHits(FileLines[f][ln])]]

\* the sum of the counts of a tally, and its references to the line ln
TotalCount(tally) == SumSeq([j \in 1..Len(tally) |-> tally[j].count])

ReferencesToLine(tally, ln) ==
  SumSeq([j \in 1..Len(tally) |->
            Cardinality({n \in 1..Len(tally[j].references) :
                           tally[j].references[n].line = ln})])

\* C20: in the fragment of a file every service has as many references as
\* its count, the counts sum to the number of pattern hits of the file, and
\* a line with k hits has k references; the counts of the returned services
\* sum to the number of hits of the files that were read.
C20_EveryHitRecordedOnce ==
  /\ \A f \in Scanned :
       (file_fragment # <<>>
          /\ \A r \in RefsOf(file_fragment) : r.file = relpath(f)) =>
         /\ \A j \in 1..Len(file_fragment) :
              file_fragment[j].count = Len(file_fragment[j].references)
         /\ TotalCount(file_fragment) = SumSeq(HitsOnLine[f])
         /\ \A ln \in 1..Len(FileLines[f]) :
              ReferencesToLine(file_fragment, ln) = HitsOnLine[f][ln]
  /\ Done =>
       TotalCount(result.services)
         = SumSeq([k \in 1..Len(Eligible) |-> SumSeq(HitsOnLine[Eligible[k]])])

\* the fragment of a file of which one line is hit by two patterns
C20_Witness ==
  /\ pc = "walk2"
  /\ \E f \in Scanned :
       /\ file_fragment # <<>>
       /\ \A r \in RefsOf(file_fragment) : r.file = relpath(f)
       /\ \E ln \in 1..Len(FileLines[f]) :
            /\ HitsOnLine[f][ln] >= 2
            /\ ReferencesToLine(file_fragment, ln) >= 2

(***************************************************************************)
(* C21: parse_python_imports called on its own, on the trees of up to      *)
(* MaxNodes nodes.                                                         *)
(***************************************************************************)
MaxNodes == 3

\* import os / import os, sys / from os.path import join / from . import x /
\* an expression statement
Nodes ==
  {[type |-> "Import", names |-> <<<<"o","s">>>>],
   [type |-> "Import", names |-> <<<<"o","s">>, <<"s","y","s">>>>],
   [type |-> "ImportFrom", module |-> <<"o","s",".","p","a","t","h">>],
   [type |-> "ImportFrom", module |-> <<>>],
   [type |-> "Expr"]}

Trees ==
  {ParseOk(body) : body \in UNION {[1..n -> Nodes] : n \in 0..MaxNodes}}
  \cup {ParseError}

ParseInit ==
  /\ NotScanning
  /\ call \in {[fn |-> "parse_python_imports", tree |-> t,
                filename |-> <<"a","p","p",".","p","y">>, returned |-> FALSE,
                connections |-> <<>>] : t \in Trees}

\* parse_python_imports(content, filename) returns
ParsePythonImports ==
  /\ call.fn = "parse_python_imports" /\ ~call.returned
  /\ call' = [call EXCEPT !.returned = TRUE,
                          !.connections = ParsedImports(call.tree, call.filename)]
  /\ UNCHANGED <<exists, walk, pc, pos, connections, file_details, languages,
                 all_services, file_fragment, failed1, failedL, failed2,
                 result, suspended, upload, pattern_failure,
                 upload_dir, requests>>

ParseNext == ParsePythonImports

ParseSpec == ParseInit /\ [][ParseNext]_vars

\* parse_python_imports has returned
Parsed == call.fn = "parse_python_imports" /\ call.returned

\* the import statements of a parsed tree
ImportStatements(tree) ==
  {n \in 1..Len(tree.body) : tree.body[n].type \in {"Import", "ImportFrom"}}

\* C21: for a file that parses, parse_python_imports returns one connection
\* (filename, X) for each import statement: as many connections as the tree
\* has import and from-import statements.
C21_OneConnectionPerImport ==
  (Parsed /\ call.tree.ok) =>
    /\ Len(call.connections) = Cardinality(ImportStatements(call.tree))
    /\ \A k \in 1..Len(call.connections) :
         call.connections[k][1] = call.filename

(***************************************************************************)
(* C22: the connection extractors only add connections.                    *)
(***************************************************************************)
\* the connection c names the file f, a .py file as its source or a .tf
\* file as its target
ExtractedFrom(c, f) ==
  \/ FileExt[f] = <<".","p","y">> /\ c[1] = Catalogue[f].name
  \/ FileExt[f] = <<".","t","f">> /\ c[2] = Catalogue[f].name

\* C22: the files, the languages and the services a scan returns are those
\* computed from the files alone, whatever connections were extracted, and
\* every connection comes from a .py or a .tf file that was read.
C22_ExtractorsOnlyAddConnections ==
  /\ Done =>
       /\ result.files = ScanFiles(walk, failed1)
       /\ result.languages = auto_detect_languages(walk, failedL, <<>>)
       /\ result.services = ScanServices(walk, failed2, <<>>)
  /\ \A k \in 1..Len(connections) :
       \E f \in Range(walk) \ failed1 : ExtractedFrom(connections[k], f)

\* a scan returned a connection of main.tf and the FileRecord of main.tf
C22_Witness ==
  /\ Done
  /\ \E k \in 1..Len(result.connections) :
       ExtractedFrom(result.connections[k], IdOf(main_tf))
  /\ \E k \in 1..Len(result.files) :
       result.files[k] = FileRecord[IdOf(main_tf)]

(***************************************************************************)
(* C23: a scan in which the matching of a rule may raise.                  *)
(***************************************************************************)
FaultNext ==
  \/ Walk1SkipExt
  \/ Walk1ReadFail
  \/ Walk1File
  \/ AutoDetectLanguages
  \/ Walk2SkipDot
  \/ Walk2SkipBinary
  \/ Walk2ReadFail
  \/ Walk2File
  \/ Walk2PatternFail
  \/ Return

FaultSpec == Init /\ [][FaultNext]_vars

\* the references of the hits of the rule aws_patterns[pi] in the lines
AwsRuleRefs(lines, file_path, pi) ==
  UNION {LET ms == finditer(aws_patterns[pi], lines[ln])
         IN  {AwsHit(aws_patterns[pi], ms[m], file_path, ln, lines[ln]).ref :
                m \in 1..Len(ms)} :
         ln \in 1..Len(lines)}

\* the references of the file f found by the rules other than
\* aws_patterns[rule]
OtherRuleRefs ==
  [f \in FileIds |->
     [rule \in 1..Len(aws_patterns) |->
        LET lines == FileLines[f]
            hits  == CloudHits(lines, relpath(f)) \o ImportHits(lines, relpath(f))
        IN  {hits[h].ref : h \in 1..Len(hits)}
            \cup UNION {AwsRuleRefs(lines, relpath(f), pi) :
                          pi \in (1..Len(aws_patterns)) \ {rule}}]]

\* C23: when the matching of one rule raised in a file, the references the
\* other rules find in that file are among the references of the returned
\* services.
C23_OtherRulesStillRecorded ==
  Done =>
    \A pf \in pattern_failure :
      OtherRuleRefs[pf.file][pf.rule] \subseteq RefsOf(result.services)

(***************************************************************************)
(* C24: a .py file whose syntax tree cannot be built.                      *)
(***************************************************************************)
\* the .py files of the walk that were read and did not parse
Unparsed ==
  {f \in Range(walk) \ failed1 :
     FileExt[f] = <<".","p","y">> /\ ~Catalogue[f].tree.ok}

\* C24: a scan returns although a .py file did not parse; it returns no
\* connection of that file, the FileRecord of the file with its languages
\* and services, and the references of the file.
C24_ParseFailureContributesNothing ==
  Done =>
    \A f \in Unparsed :
      /\ result.status = "returned"
      /\ \A k \in 1..Len(result.connections) :
           result.connections[k][1] # Catalogue[f].name
      /\ \E k \in 1..Len(result.files) :
           /\ result.files[k].file = relpath(f)
           /\ result.files[k].languages
                = file_languages(Catalogue[f].content, Catalogue[f].name,
                                 FileExt[f])
           /\ result.files[k].services
                = Keys(auto_detect_services(Catalogue[f].content))
      /\ f \notin failed2 =>
           RefsOf(auto_detect_services_with_references(
                    Catalogue[f].content, relpath(f)))
             \subseteq RefsOf(result.services)

\* a scan of broken.py returned its FileRecord and a reference to it
C24_Witness ==
  /\ Done /\ IdOf(broken_py) \in Unparsed
  /\ \E k \in 1..Len(result.files) :
       result.files[k].file = relpath(IdOf(broken_py))
  /\ \E r \in RefsOf(result.services) : r.file = relpath(IdOf(broken_py))

(***************************************************************************)
(* C25: the extension table is the last resort.                            *)
(***************************************************************************)
\* the tags LANGUAGE_MAP has for the extension of f: one or none
ExtensionTags(f) ==
  {LANGUAGE_MAP[n][2] : n \in {m \in 1..Len(LANGUAGE_MAP) :
                                 LANGUAGE_MAP[m][1] = FileExt[f]}}

\* neither the shebang nor the content rules gave f a language
NoOtherTag(f) == ShebangLang[f] = <<>> /\ Catalogue[f].content_langs = <<>>

\* C25: the languages of a FileRecord are the tag of the extension table,
\* alone, when the shebang and the content rules gave nothing and the table
\* has the extension; they are empty when the table does not have it; and
\* they are the tags of the shebang or of the content rules otherwise.
C25_ExtensionFallbackLast ==
  \A details \in {file_details, result.files} :
    \A k \in 1..Len(details) :
      \A f \in FileIds :
        details[k].file = relpath(f) =>
          IF NoOtherTag(f)
          THEN Range(details[k].languages) = ExtensionTags(f)
               /\ Len(details[k].languages) = Cardinality(ExtensionTags(f))
          ELSE details[k].languages
                 = (IF ShebangLang[f] # <<>> THEN ShebangLang[f]
                    ELSE Catalogue[f].content_langs)

\* a scan returned index.js tagged by its extension, install.txt without a
\* language, and app.py tagged by the content rules
C25_Witness ==
  /\ Done
  /\ \E k \in 1..Len(result.files) :
       \/ /\ result.files[k].file = relpath(IdOf(index_js))
          /\ result.files[k].languages = <<"JavaScript">>
       \/ /\ result.files[k].file = relpath(IdOf(app_py))
          /\ result.files[k].languages = <<"Python">>
  /\ \E k \in 1..Len(result.files) :
       /\ result.files[k].file = relpath(IdOf(install_txt))
       /\ result.files[k].languages = <<>>

(***************************************************************************)
(* C26: the legacy entry point detect_language_and_services, on a          *)
(* directory all of whose files can be read.                               *)
(***************************************************************************)
\* auto_service_detector.py lines 303-304: all_services[service] += count
RECURSIVE AddLegacyCounts(_, _)
AddLegacyCounts(all, counts) ==
  IF counts = <<>> THEN all
  ELSE LET d == IF HasKey(all, Head(counts).name) THEN all
                ELSE Append(all, [name |-> Head(counts).name, count |-> 0])
           i == KeyIndex(d, Head(counts).name)
       IN  AddLegacyCounts([d EXCEPT ![i].count = @ + Head(counts).count],
                           Tail(counts))

\* detect_all_services on the files w: only the dotfiles are skipped
RECURSIVE detect_all_services(_, _)
detect_all_services(w, all) ==
  IF w = <<>> THEN all
  ELSE detect_all_services(Tail(w),
         IF IsDotFile[Head(w)] THEN all
         ELSE AddLegacyCounts(all, FileServices[Head(w)]))

\* detect_language_and_services on the files w
detect_language_and_services(w) ==
  [languages   |-> auto_detect_languages(w, {}, <<>>),
   services    |-> detect_all_services(w, <<>>),
   connections |-> ScanConnections(w, {}),
   files       |-> ScanFiles(w, {})]

\* C26: on a directory whose files can all be read, the legacy entry point
\* returns the connections and the files of the scan, and as services the
\* names of the services of the scan, each with its count.
C26_LegacyEntryPointAgrees ==
  (Done /\ AllRead) =>
    LET legacy == detect_language_and_services(walk)
    IN  /\ legacy.connections = result.connections
        /\ legacy.files = result.files
        /\ Range(legacy.services) = Range(LegacyServices(result.services))

(***************************************************************************)
(* C27: clean_service_name applied to what it returned.                    *)
(***************************************************************************)
\* C27: clean_service_name returns its argument unchanged when the argument
\* is a name it returned.
C27_CleanIdempotent ==
  Cleaned => clean_service_name(call.clean_name) = call.clean_name

(***************************************************************************)
(* C28: the file of a connection and the file of a FileRecord.             *)
(***************************************************************************)
\* C28: every returned connection names its file, the source of an import
\* edge or the target of a depends_on edge, by the root-relative path of a
\* .py or .tf file of the directory, the path its FileRecord carries.
C28_ConnectionsUseRelativePath ==
  Done =>
    \A k \in 1..Len(result.connections) :
      \E f \in Range(walk) :
        \/ FileExt[f] = <<".","p","y">> /\ result.connections[k][1] = relpath(f)
        \/ FileExt[f] = <<".","t","f">> /\ result.connections[k][2] = relpath(f)

(***************************************************************************)
(* C29, C30: the upload handler (main.py, upload_project), for MaxRequests *)
(* requests served by one event loop.  A request can be suspended only at  *)
(* the await of line 35, after open(temp_path, "wb") created or truncated  *)
(* the file; the rest of the handler runs without a suspension.            *)
(***************************************************************************)
MaxRequests == 2

NewRequest(n, b) ==
  [pc |-> "start", filename |-> n, body |-> b, extract_dir |-> "none",
   extracted |-> <<>>, error |-> "none"]

UploadInit ==
  /\ exists = FALSE
  /\ walk = <<>>
  /\ pc = "idle"
  /\ pos = 1
  /\ connections = <<>>
  /\ file_details = <<>>
  /\ languages = <<>>
  /\ all_services = <<>>
  /\ file_fragment = <<>>
  /\ failed1 = {}
  /\ failedL = {}
  /\ failed2 = {}
  /\ result = NoResult
  /\ suspended = NoScan
  /\ call = NoCall
  /\ upload = NoUpload
  /\ pattern_failure = {}
  /\ upload_dir = EmptyDir
  /\ requests \in [1..MaxRequests ->
                     {NewRequest(n, b) : n \in FileNames, b \in Bodies}]

\* f.write(data) on a file opened at offset 0: the bytes after the written
\* ones stay
WriteAtStart(content, data) ==
  data \o SubSeq(content, Len(data) + 1, Len(content))

\* no request is between its write and its end
LoopFree == \A q \in DOMAIN requests : requests[q].pc \notin {"saved", "extracted"}

\* lines 34-35: open(temp_path, "wb"), then await file.read()
OpenArchive ==
  \E r \in DOMAIN requests :
    /\ requests[r].pc = "start" /\ LoopFree
    /\ upload_dir' = [upload_dir EXCEPT ![requests[r].filename] =
                        [exists |-> TRUE, content |-> <<>>]]
    /\ requests' = [requests EXCEPT ![r].pc = "reading"]
    /\ UNCHANGED <<exists, walk, pc, pos, connections, file_details, languages,
                   all_services, file_fragment, failed1, failedL, failed2,
                   result, suspended, call, upload, pattern_failure>>

\* line 35: f.write(...) and the end of the with block
WriteArchive ==
  \E r \in DOMAIN requests :
    /\ requests[r].pc = "reading" /\ LoopFree
    /\ upload_dir' = [upload_dir EXCEPT ![requests[r].filename].content =
                        WriteAtStart(@, requests[r].body)]
    /\ requests' = [requests EXCEPT ![r].pc = "saved"]
    /\ UNCHANGED <<exists, walk, pc, pos, connections, file_details, languages,
                   all_services, file_fragment, failed1, failedL, failed2,
                   result, suspended, call, upload, pattern_failure>>

\* lines 38-40: mkdtemp, then ZipFile(temp_path) raises BadZipFile or
\* extractall extracts what the file holds
ExtractArchive ==
  \E r \in DOMAIN requests :
    /\ requests[r].pc = "saved"
    /\ requests' =
         IF upload_dir[requests[r].filename].content \in Archives
         THEN [requests EXCEPT ![r].pc = "extracted",
                               ![r].extract_dir = "exists",
                               ![r].extracted =
                                  upload_dir[requests[r].filename].content]
         ELSE [requests EXCEPT ![r].pc = "failed",
                               ![r].extract_dir = "exists",
                               ![r].error = "BadZipFile"]
    /\ UNCHANGED <<exists, walk, pc, pos, connections, file_details, languages,
                   all_services, file_fragment, failed1, failedL, failed2,
                   result, suspended, call, upload, pattern_failure,
                   upload_dir>>

\* lines 44-56: the scan and the first generators return, and the call of
\* build_workflow_diagram with four arguments (its definition takes three)
\* raises TypeError; lines 86-87 are not reached
BuildWorkflowDiagramRaises ==
  \E r \in DOMAIN requests :
    /\ requests[r].pc = "extracted"
    /\ requests' = [requests EXCEPT ![r].pc = "failed",
                                    ![r].error = "TypeError"]
    /\ UNCHANGED <<exists, walk, pc, pos, connections, file_details, languages,
                   all_services, file_fragment, failed1, failedL, failed2,
                   result, suspended, call, upload, pattern_failure,
                   upload_dir>>

UploadNext ==
  \/ OpenArchive
  \/ WriteArchive
  \/ ExtractArchive
  \/ BuildWorkflowDiagramRaises

UploadSpec == UploadInit /\ [][UploadNext]_vars

\* the handler of the request r has returned or raised
Finished(r) == requests[r].pc \in {"responded", "failed"}

\* C29: when the handler of a request has finished, with a response or
\* with an exception, the archive it saved is no longer in UPLOAD_DIR and
\* the directory it extracted to no longer exists.
C29_ArchiveAndTempDirRemoved ==
  \A r \in DOMAIN requests :
    Finished(r) =>
      /\ ~upload_dir[requests[r].filename].exists
      /\ requests[r].extract_dir # "exists"

\* C30: a request that uploaded an archive and got past the extraction
\* extracted the bytes it uploaded, whatever the other requests did at the
\* await.
C30_RequestsExtractOwnBytes ==
  \A r \in DOMAIN requests :
    (requests[r].body \in Archives
       /\ requests[r].pc \in {"extracted", "responded", "failed"}) =>
      requests[r].extracted = requests[r].body
=============================================================================
